---- MODULE Spec2Model ----
(***************************************************************************)
(* Model of the Opentrons Tempdeck host driver, ot_tempdeck/_driver.py:    *)
(* the command/response protocol engine of class TempdeckControl and the   *)
(* serial transport it reads from and writes to.                           *)
(*                                                                         *)
(* Text is modelled as a sequence of one-character strings, so that the    *)
(* string operations of the driver (rstrip, strip, split, split(":", 1),   *)
(* float(), the .3f format) are computed, not assumed.  A floating-point   *)
(* number is modelled as the double nearest to a decimal num * 10^(-exp),  *)
(* as the subnormal double num * 2^(-1074) when it is below 10^(-314), or  *)
(* as -0.0, nan, inf or -inf.                                              *)
(***************************************************************************)
EXTENDS Integers, Sequences, FiniteSets, TLC

\* ------------------------------------------------------------------ bounds

\* Most lines that may wait unread on the transport.
MaxRx == 3

\* ------------------------------------------------------------------ text

\* A character is a one-character string; a character that has no TLA+ string
\* escape is written as its code point in hexadecimal between angle brackets:
\* "<0b>" is chr(0x0b), "<80>" is chr(0x80) and, in a line of bytes, the byte
\* 0x80.  Letters outside ASCII are not represented.

\* Characters that Python's str.strip/rstrip/split treat as whitespace, those
\* for which str.isspace() holds: in ASCII space, \t, \n, \v, \f, \r and the
\* separators 0x1c..0x1f; outside ASCII (only text that did not come through
\* decode('ascii') can hold one) U+0085, U+00A0, U+1680, U+2000..U+200A,
\* U+2028, U+2029, U+202F, U+205F and U+3000.
Whitespace ==
    {" ", "\t", "\n", "<0b>", "\f", "\r", "<1c>", "<1d>", "<1e>", "<1f>",
     "<85>", "<a0>", "<1680>", "<2000>", "<2001>", "<2002>", "<2003>", "<2004>",
     "<2005>", "<2006>", "<2007>", "<2008>", "<2009>", "<200a>", "<2028>",
     "<2029>", "<202f>", "<205f>", "<3000>"}

\* The decimal digits, in order: Digits[d + 1] is the character of digit d.
Digits == <<"0", "1", "2", "3", "4", "5", "6", "7", "8", "9">>

\* The decimal digits of every script (Unicode category Nd, 66 runs of ten
\* consecutive code points from a digit zero: ASCII, Arabic-Indic U+0660..,
\* Devanagari U+0966.., fullwidth U+FF10.., mathematical U+1D7CE.., ...).
\* float() reads each of them as the ASCII digit of the same value;
\* DigitRows[r][d + 1] is the digit d of run r.
DigitRows ==
    <<Digits,
     <<"<660>", "<661>", "<662>", "<663>", "<664>", "<665>", "<666>", "<667>", "<668>", "<669>">>,
     <<"<6f0>", "<6f1>", "<6f2>", "<6f3>", "<6f4>", "<6f5>", "<6f6>", "<6f7>", "<6f8>", "<6f9>">>,
     <<"<7c0>", "<7c1>", "<7c2>", "<7c3>", "<7c4>", "<7c5>", "<7c6>", "<7c7>", "<7c8>", "<7c9>">>,
     <<"<966>", "<967>", "<968>", "<969>", "<96a>", "<96b>", "<96c>", "<96d>", "<96e>", "<96f>">>,
     <<"<9e6>", "<9e7>", "<9e8>", "<9e9>", "<9ea>", "<9eb>", "<9ec>", "<9ed>", "<9ee>", "<9ef>">>,
     <<"<a66>", "<a67>", "<a68>", "<a69>", "<a6a>", "<a6b>", "<a6c>", "<a6d>", "<a6e>", "<a6f>">>,
     <<"<ae6>", "<ae7>", "<ae8>", "<ae9>", "<aea>", "<aeb>", "<aec>", "<aed>", "<aee>", "<aef>">>,
     <<"<b66>", "<b67>", "<b68>", "<b69>", "<b6a>", "<b6b>", "<b6c>", "<b6d>", "<b6e>", "<b6f>">>,
     <<"<be6>", "<be7>", "<be8>", "<be9>", "<bea>", "<beb>", "<bec>", "<bed>", "<bee>", "<bef>">>,
     <<"<c66>", "<c67>", "<c68>", "<c69>", "<c6a>", "<c6b>", "<c6c>", "<c6d>", "<c6e>", "<c6f>">>,
     <<"<ce6>", "<ce7>", "<ce8>", "<ce9>", "<cea>", "<ceb>", "<cec>", "<ced>", "<cee>", "<cef>">>,
     <<"<d66>", "<d67>", "<d68>", "<d69>", "<d6a>", "<d6b>", "<d6c>", "<d6d>", "<d6e>", "<d6f>">>,
     <<"<de6>", "<de7>", "<de8>", "<de9>", "<dea>", "<deb>", "<dec>", "<ded>", "<dee>", "<def>">>,
     <<"<e50>", "<e51>", "<e52>", "<e53>", "<e54>", "<e55>", "<e56>", "<e57>", "<e58>", "<e59>">>,
     <<"<ed0>", "<ed1>", "<ed2>", "<ed3>", "<ed4>", "<ed5>", "<ed6>", "<ed7>", "<ed8>", "<ed9>">>,
     <<"<f20>", "<f21>", "<f22>", "<f23>", "<f24>", "<f25>", "<f26>", "<f27>", "<f28>", "<f29>">>,
     <<"<1040>", "<1041>", "<1042>", "<1043>", "<1044>", "<1045>", "<1046>", "<1047>", "<1048>", "<1049>">>,
     <<"<1090>", "<1091>", "<1092>", "<1093>", "<1094>", "<1095>", "<1096>", "<1097>", "<1098>", "<1099>">>,
     <<"<17e0>", "<17e1>", "<17e2>", "<17e3>", "<17e4>", "<17e5>", "<17e6>", "<17e7>", "<17e8>", "<17e9>">>,
     <<"<1810>", "<1811>", "<1812>", "<1813>", "<1814>", "<1815>", "<1816>", "<1817>", "<1818>", "<1819>">>,
     <<"<1946>", "<1947>", "<1948>", "<1949>", "<194a>", "<194b>", "<194c>", "<194d>", "<194e>", "<194f>">>,
     <<"<19d0>", "<19d1>", "<19d2>", "<19d3>", "<19d4>", "<19d5>", "<19d6>", "<19d7>", "<19d8>", "<19d9>">>,
     <<"<1a80>", "<1a81>", "<1a82>", "<1a83>", "<1a84>", "<1a85>", "<1a86>", "<1a87>", "<1a88>", "<1a89>">>,
     <<"<1a90>", "<1a91>", "<1a92>", "<1a93>", "<1a94>", "<1a95>", "<1a96>", "<1a97>", "<1a98>", "<1a99>">>,
     <<"<1b50>", "<1b51>", "<1b52>", "<1b53>", "<1b54>", "<1b55>", "<1b56>", "<1b57>", "<1b58>", "<1b59>">>,
     <<"<1bb0>", "<1bb1>", "<1bb2>", "<1bb3>", "<1bb4>", "<1bb5>", "<1bb6>", "<1bb7>", "<1bb8>", "<1bb9>">>,
     <<"<1c40>", "<1c41>", "<1c42>", "<1c43>", "<1c44>", "<1c45>", "<1c46>", "<1c47>", "<1c48>", "<1c49>">>,
     <<"<1c50>", "<1c51>", "<1c52>", "<1c53>", "<1c54>", "<1c55>", "<1c56>", "<1c57>", "<1c58>", "<1c59>">>,
     <<"<a620>", "<a621>", "<a622>", "<a623>", "<a624>", "<a625>", "<a626>", "<a627>", "<a628>", "<a629>">>,
     <<"<a8d0>", "<a8d1>", "<a8d2>", "<a8d3>", "<a8d4>", "<a8d5>", "<a8d6>", "<a8d7>", "<a8d8>", "<a8d9>">>,
     <<"<a900>", "<a901>", "<a902>", "<a903>", "<a904>", "<a905>", "<a906>", "<a907>", "<a908>", "<a909>">>,
     <<"<a9d0>", "<a9d1>", "<a9d2>", "<a9d3>", "<a9d4>", "<a9d5>", "<a9d6>", "<a9d7>", "<a9d8>", "<a9d9>">>,
     <<"<a9f0>", "<a9f1>", "<a9f2>", "<a9f3>", "<a9f4>", "<a9f5>", "<a9f6>", "<a9f7>", "<a9f8>", "<a9f9>">>,
     <<"<aa50>", "<aa51>", "<aa52>", "<aa53>", "<aa54>", "<aa55>", "<aa56>", "<aa57>", "<aa58>", "<aa59>">>,
     <<"<abf0>", "<abf1>", "<abf2>", "<abf3>", "<abf4>", "<abf5>", "<abf6>", "<abf7>", "<abf8>", "<abf9>">>,
     <<"<ff10>", "<ff11>", "<ff12>", "<ff13>", "<ff14>", "<ff15>", "<ff16>", "<ff17>", "<ff18>", "<ff19>">>,
     <<"<104a0>", "<104a1>", "<104a2>", "<104a3>", "<104a4>", "<104a5>", "<104a6>", "<104a7>", "<104a8>", "<104a9>">>,
     <<"<10d30>", "<10d31>", "<10d32>", "<10d33>", "<10d34>", "<10d35>", "<10d36>", "<10d37>", "<10d38>", "<10d39>">>,
     <<"<11066>", "<11067>", "<11068>", "<11069>", "<1106a>", "<1106b>", "<1106c>", "<1106d>", "<1106e>", "<1106f>">>,
     <<"<110f0>", "<110f1>", "<110f2>", "<110f3>", "<110f4>", "<110f5>", "<110f6>", "<110f7>", "<110f8>", "<110f9>">>,
     <<"<11136>", "<11137>", "<11138>", "<11139>", "<1113a>", "<1113b>", "<1113c>", "<1113d>", "<1113e>", "<1113f>">>,
     <<"<111d0>", "<111d1>", "<111d2>", "<111d3>", "<111d4>", "<111d5>", "<111d6>", "<111d7>", "<111d8>", "<111d9>">>,
     <<"<112f0>", "<112f1>", "<112f2>", "<112f3>", "<112f4>", "<112f5>", "<112f6>", "<112f7>", "<112f8>", "<112f9>">>,
     <<"<11450>", "<11451>", "<11452>", "<11453>", "<11454>", "<11455>", "<11456>", "<11457>", "<11458>", "<11459>">>,
     <<"<114d0>", "<114d1>", "<114d2>", "<114d3>", "<114d4>", "<114d5>", "<114d6>", "<114d7>", "<114d8>", "<114d9>">>,
     <<"<11650>", "<11651>", "<11652>", "<11653>", "<11654>", "<11655>", "<11656>", "<11657>", "<11658>", "<11659>">>,
     <<"<116c0>", "<116c1>", "<116c2>", "<116c3>", "<116c4>", "<116c5>", "<116c6>", "<116c7>", "<116c8>", "<116c9>">>,
     <<"<11730>", "<11731>", "<11732>", "<11733>", "<11734>", "<11735>", "<11736>", "<11737>", "<11738>", "<11739>">>,
     <<"<118e0>", "<118e1>", "<118e2>", "<118e3>", "<118e4>", "<118e5>", "<118e6>", "<118e7>", "<118e8>", "<118e9>">>,
     <<"<11950>", "<11951>", "<11952>", "<11953>", "<11954>", "<11955>", "<11956>", "<11957>", "<11958>", "<11959>">>,
     <<"<11c50>", "<11c51>", "<11c52>", "<11c53>", "<11c54>", "<11c55>", "<11c56>", "<11c57>", "<11c58>", "<11c59>">>,
     <<"<11d50>", "<11d51>", "<11d52>", "<11d53>", "<11d54>", "<11d55>", "<11d56>", "<11d57>", "<11d58>", "<11d59>">>,
     <<"<11da0>", "<11da1>", "<11da2>", "<11da3>", "<11da4>", "<11da5>", "<11da6>", "<11da7>", "<11da8>", "<11da9>">>,
     <<"<16a60>", "<16a61>", "<16a62>", "<16a63>", "<16a64>", "<16a65>", "<16a66>", "<16a67>", "<16a68>", "<16a69>">>,
     <<"<16ac0>", "<16ac1>", "<16ac2>", "<16ac3>", "<16ac4>", "<16ac5>", "<16ac6>", "<16ac7>", "<16ac8>", "<16ac9>">>,
     <<"<16b50>", "<16b51>", "<16b52>", "<16b53>", "<16b54>", "<16b55>", "<16b56>", "<16b57>", "<16b58>", "<16b59>">>,
     <<"<1d7ce>", "<1d7cf>", "<1d7d0>", "<1d7d1>", "<1d7d2>", "<1d7d3>", "<1d7d4>", "<1d7d5>", "<1d7d6>", "<1d7d7>">>,
     <<"<1d7d8>", "<1d7d9>", "<1d7da>", "<1d7db>", "<1d7dc>", "<1d7dd>", "<1d7de>", "<1d7df>", "<1d7e0>", "<1d7e1>">>,
     <<"<1d7e2>", "<1d7e3>", "<1d7e4>", "<1d7e5>", "<1d7e6>", "<1d7e7>", "<1d7e8>", "<1d7e9>", "<1d7ea>", "<1d7eb>">>,
     <<"<1d7ec>", "<1d7ed>", "<1d7ee>", "<1d7ef>", "<1d7f0>", "<1d7f1>", "<1d7f2>", "<1d7f3>", "<1d7f4>", "<1d7f5>">>,
     <<"<1d7f6>", "<1d7f7>", "<1d7f8>", "<1d7f9>", "<1d7fa>", "<1d7fb>", "<1d7fc>", "<1d7fd>", "<1d7fe>", "<1d7ff>">>,
     <<"<1e140>", "<1e141>", "<1e142>", "<1e143>", "<1e144>", "<1e145>", "<1e146>", "<1e147>", "<1e148>", "<1e149>">>,
     <<"<1e2f0>", "<1e2f1>", "<1e2f2>", "<1e2f3>", "<1e2f4>", "<1e2f5>", "<1e2f6>", "<1e2f7>", "<1e2f8>", "<1e2f9>">>,
     <<"<1e950>", "<1e951>", "<1e952>", "<1e953>", "<1e954>", "<1e955>", "<1e956>", "<1e957>", "<1e958>", "<1e959>">>,
     <<"<1fbf0>", "<1fbf1>", "<1fbf2>", "<1fbf3>", "<1fbf4>", "<1fbf5>", "<1fbf6>", "<1fbf7>", "<1fbf8>", "<1fbf9>">>>>

DigitChars == {DigitRows[r][i] : r \in 1..Len(DigitRows), i \in 1..10}

DigitValue(c) ==
    (CHOOSE i \in 1..10 : \E r \in 1..Len(DigitRows) : DigitRows[r][i] = c) - 1

\* The bytes >= 0x80 that are represented: bytes.decode('ascii') raises
\* UnicodeDecodeError on each.
NonAscii == {"<80>", "<85>", "<a0>"}

\* str.rstrip(): drop trailing whitespace.
RECURSIVE rstrip(_)
rstrip(s) ==
    IF s = <<>> THEN s
    ELSE IF s[Len(s)] \in Whitespace THEN rstrip(SubSeq(s, 1, Len(s) - 1))
    ELSE s

\* str.lstrip(): drop leading whitespace.
RECURSIVE lstrip(_)
lstrip(s) ==
    IF s = <<>> THEN s
    ELSE IF Head(s) \in Whitespace THEN lstrip(Tail(s))
    ELSE s

\* str.strip(): drop leading and trailing whitespace.
strip(s) == lstrip(rstrip(s))

\* Index of the first character of s that is in set cs, 0 when there is none.
RECURSIVE FindFirst(_, _, _)
FindFirst(s, cs, i) ==
    IF i > Len(s) THEN 0
    ELSE IF s[i] \in cs THEN i
    ELSE FindFirst(s, cs, i + 1)

\* str.split() with no argument: the maximal runs of non-whitespace, in order.
RECURSIVE split(_)
split(s) ==
    LET t == lstrip(s)
        e == FindFirst(t, Whitespace, 1)
    IN  IF t = <<>> THEN <<>>
        ELSE IF e = 0 THEN <<t>>
        ELSE <<SubSeq(t, 1, e - 1)>> \o split(SubSeq(t, e + 1, Len(t)))

\* Index of the last character of s that is in set cs, 0 when there is none.
RECURSIVE FindLast(_, _, _)
FindLast(s, cs, i) ==
    IF i < 1 THEN 0
    ELSE IF s[i] \in cs THEN i
    ELSE FindLast(s, cs, i - 1)

\* split_colon splitting at the last colon (rsplit) instead of the first.
split_colon_last(piece) ==
    LET c == FindLast(piece, {":"}, Len(piece))
    IN  IF c = 0 THEN <<piece>>
        ELSE <<SubSeq(piece, 1, c - 1), SubSeq(piece, c + 1, Len(piece))>>

\* piece.split(":", 1): one part when there is no colon, else the text before
\* the first colon and the text after it.
split_colon(piece) ==
    LET c == FindFirst(piece, {":"}, 1)
    IN  IF c = 0 THEN <<piece>>
        ELSE <<SubSeq(piece, 1, c - 1), SubSeq(piece, c + 1, Len(piece))>>

\* ------------------------------------------------------------------ values

\* Python values the driver handles, as records of one shape.
Str(t) == [kind |-> "str", text |-> t, num |-> 0, exp |-> 0]

None == [kind |-> "None", text |-> <<>>, num |-> 0, exp |-> 0]

\* An attribute that was never assigned.
Unset == [kind |-> "unset", text |-> <<>>, num |-> 0, exp |-> 0]

RECURSIVE Pow10(_)
Pow10(k) == IF k = 0 THEN 1 ELSE 10 * Pow10(k - 1)

\* The natural number written by a sequence of digits (0 for no digit).
RECURSIVE DigitsValue(_)
DigitsValue(s) ==
    IF s = <<>> THEN 0
    ELSE 10 * DigitsValue(SubSeq(s, 1, Len(s) - 1)) + DigitValue(s[Len(s)])

AllDigits(s) == \A i \in 1..Len(s) : s[i] \in DigitChars

\* s with each decimal digit replaced by the ASCII digit of its value, as
\* float() does before it reads the text.
ascii_digits(s) ==
    [i \in 1..Len(s) |->
        IF s[i] \in DigitChars THEN Digits[DigitValue(s[i]) + 1] ELSE s[i]]

\* The decimal digits of natural number n, at least one.
RECURSIVE NatText(_)
NatText(n) ==
    IF n < 10 THEN <<Digits[n + 1]>>
    ELSE NatText(n \div 10) \o <<Digits[(n % 10) + 1]>>

\* The digits of n, zero-padded on the left to width w.
RECURSIVE PadText(_, _)
PadText(n, w) ==
    IF w = 0 THEN <<>>
    ELSE PadText(n \div 10, w - 1) \o <<Digits[(n % 10) + 1]>>

\* The floats that are no finite nonzero number or +0.0: text names them.
NegZero == [kind |-> "float", text |-> <<"-">>, num |-> 0, exp |-> 0]

NaN == [kind |-> "float", text |-> <<"n", "a", "n">>, num |-> 0, exp |-> 0]

\* inf for sign 1, -inf for sign -1.
Inf(sign) == [kind |-> "float", text |-> <<"i", "n", "f">>, num |-> sign, exp |-> 0]

\* The double k * 2^(-1074) for a k # 0 below 2^31: the doubles of magnitude
\* below 10^-314, where several decimals of ten digits denote the same one.
Subnormal(k) ==
    [kind |-> "float", text |-> <<"2", "^", "-", "1", "0", "7", "4">>,
     num |-> k, exp |-> 0]

\* 0.0 or -0.0
Zero(sign) ==
    IF sign < 0 THEN NegZero
    ELSE [kind |-> "float", text |-> <<>>, num |-> 0, exp |-> 0]

\* The 32-bit natural number n in base 10^4: limb j is the digit of weight
\* 10^(4 * (j - 1)).
Limbs(n) == <<n % 10000, (n \div 10000) % 10000, n \div 100000000>>

\* The first 28 digits of 2^1074 / 10^324 = 0.2024022533073106183524953467...,
\* as limbs: a decimal x is x / 2^(-1074) = x * 10^324 * 0.2024... steps of
\* the subnormal grid.  28 digits decide every rounding of a decimal below
\* 10^-314 with a 32-bit mantissa: m * 2^1074 / 10^324 is for no m below
\* 10^10 closer than 10^-12 to the middle between two whole numbers (the
\* convergents of the continued fraction of 2^1074 / 10^324 tell so), and
\* the digits left out change the product by less than 10^-18.
SubnormalScale == <<3467, 2495, 1835, 3106, 3307, 225, 2024>>

\* The sum of a[i'] * b[j - i' + 1] over i' <= i: limb j of the product of a
\* and b, before the carries.
RECURSIVE LimbSum(_, _, _, _)
LimbSum(a, b, j, i) ==
    IF i = 0 THEN 0
    ELSE (IF j - i + 1 \in 1..Len(b) THEN a[i] * b[j - i + 1] ELSE 0)
         + LimbSum(a, b, j, i - 1)

\* The decimal digits, four for each limb and four for the last carry, of
\* the number with limbs p plus carry c.
RECURSIVE LimbDigits(_, _)
LimbDigits(p, c) ==
    IF p = <<>> THEN PadText(c, 4)
    ELSE LimbDigits(Tail(p), (Head(p) + c) \div 10000)
         \o PadText((Head(p) + c) % 10000, 4)

\* The digits of the product of the numbers with limbs a and b.
Product(a, b) ==
    LimbDigits([j \in 1..(Len(a) + Len(b) - 1) |-> LimbSum(a, b, j, Len(a))], 0)

\* The double nearest to sign * 0.<pd> * 10^cut steps of the subnormal grid,
\* for digits pd: a signed zero when that is no step.  (No decimal lies in
\* the middle between two steps.)
round_subnormal(sign, pd, cut) ==
    LET whole == IF cut > 0 THEN DigitsValue(SubSeq(pd, 1, cut)) ELSE 0
        up == cut >= 0 /\ DigitValue(pd[cut + 1]) >= 5
        k == IF up THEN whole + 1 ELSE whole
    IN  IF k = 0 THEN Zero(sign) ELSE Subnormal(sign * k)

\* A float is the double nearest to num * 10^(-exp); the record is normalised
\* (num carries no trailing zero, and exp may be negative) so that equal
\* numbers are equal records.  num is a 32-bit integer, which is at most ten
\* significant digits: two such decimals of magnitude 10^-314 or more are
\* different doubles (below 2^-1022 doubles lie 2^-1074, about 4.94e-324,
\* apart, and two such decimals at least 10^-323).  A smaller double is a
\* Subnormal, or the zero it rounds to.  Decimals of more digits are not
\* represented.
RECURSIVE Float(_, _)
Float(n, e) ==
    IF n = 0 THEN Zero(1)
    ELSE IF n % 10 = 0 THEN Float(n \div 10, e - 1)
    ELSE IF n < 0 /\ Len(NatText(0 - n)) - e <= 0 - 314
    THEN round_subnormal(0 - 1, Product(Limbs(0 - n), SubnormalScale),
                         4 * (3 + Len(SubnormalScale)) - (e - 296))
    ELSE IF n > 0 /\ Len(NatText(n)) - e <= 0 - 314
    THEN round_subnormal(1, Product(Limbs(n), SubnormalScale),
                         4 * (3 + Len(SubnormalScale)) - (e - 296))
    ELSE [kind |-> "float", text |-> <<>>, num |-> n, exp |-> e]

UpperCase ==
    <<"A", "B", "C", "D", "E", "F", "G", "H", "I", "J", "K", "L", "M",
      "N", "O", "P", "Q", "R", "S", "T", "U", "V", "W", "X", "Y", "Z">>

LowerCase ==
    <<"a", "b", "c", "d", "e", "f", "g", "h", "i", "j", "k", "l", "m",
      "n", "o", "p", "q", "r", "s", "t", "u", "v", "w", "x", "y", "z">>

\* s with its ASCII capital letters replaced by small ones: the caseless
\* comparison float() makes for "inf", "infinity" and "nan".
ascii_lower(s) ==
    [i \in 1..Len(s) |->
        IF \E k \in 1..Len(UpperCase) : UpperCase[k] = s[i]
        THEN LowerCase[CHOOSE k \in 1..Len(UpperCase) : UpperCase[k] = s[i]]
        ELSE s[i]]

\* The whitespace float() drops around its argument: str.isspace() without
\* the separators 0x1c..0x1f.
FloatSpace == Whitespace \ {"<1c>", "<1d>", "<1e>", "<1f>"}

RECURSIVE float_strip(_)
float_strip(s) ==
    IF s = <<>> THEN s
    ELSE IF Head(s) \in FloatSpace THEN float_strip(Tail(s))
    ELSE IF s[Len(s)] \in FloatSpace THEN float_strip(SubSeq(s, 1, Len(s) - 1))
    ELSE s

\* A digit part of a float literal: digits, single underscores allowed
\* between two digits.
DigitPart(s) ==
    /\ s # <<>>
    /\ \A i \in 1..Len(s) : s[i] \in DigitChars \cup {"_"}
    /\ s[1] # "_"
    /\ s[Len(s)] # "_"
    /\ \A i \in 1..(Len(s) - 1) : ~(s[i] = "_" /\ s[i + 1] = "_")

\* s without the characters of set cs.
RECURSIVE Without(_, _)
Without(s, cs) ==
    IF s = <<>> THEN s
    ELSE IF Head(s) \in cs THEN Without(Tail(s), cs)
    ELSE <<Head(s)>> \o Without(Tail(s), cs)

\* Digits s without leading zeros.
RECURSIVE DropLeadingZeros(_)
DropLeadingZeros(s) ==
    IF s # <<>> /\ Head(s) = "0" THEN DropLeadingZeros(Tail(s)) ELSE s

\* Digits s without trailing zeros.
RECURSIVE DropTrailingZeros(_)
DropTrailingZeros(s) ==
    IF s # <<>> /\ s[Len(s)] = "0" THEN DropTrailingZeros(SubSeq(s, 1, Len(s) - 1))
    ELSE s

\* 0.a < 0.b for digit sequences a and b without trailing zeros.
RECURSIVE FracLess(_, _)
FracLess(a, b) ==
    IF b = <<>> THEN FALSE
    ELSE IF a = <<>> THEN TRUE
    ELSE IF Head(a) # Head(b) THEN DigitValue(Head(a)) < DigitValue(Head(b))
    ELSE FracLess(Tail(a), Tail(b))

\* The number of decimal digits before the point of the largest double
\* (1.7976931348623157e308), and the digits of the rounding boundary
\* 2^1024 - 2^970, halfway between that double and 2^1024: a decimal at or
\* above it converts to inf.
MaxOrder == 309

MaxBoundary ==
    <<"1", "7", "9", "7", "6", "9", "3", "1", "3", "4", "8", "6", "2", "3", "1",
      "5", "8", "0", "7", "9", "3", "7", "2", "8", "9", "7", "1", "4", "0", "5",
      "3", "0", "3", "4", "1", "5", "0", "7", "9", "9", "3", "4", "1", "3", "2",
      "7", "1", "0", "0", "3", "7", "8", "2", "6", "9", "3", "6", "1", "7", "3",
      "7", "7", "8", "9", "8", "0", "4", "4", "4", "9", "6", "8", "2", "9", "2",
      "7", "6", "4", "7", "5", "0", "9", "4", "6", "6", "4", "9", "0", "1", "7",
      "9", "7", "7", "5", "8", "7", "2", "0", "7", "0", "9", "6", "3", "3", "0",
      "2", "8", "6", "4", "1", "6", "6", "9", "2", "8", "8", "7", "9", "1", "0",
      "9", "4", "6", "5", "5", "5", "5", "4", "7", "8", "5", "1", "9", "4", "0",
      "4", "0", "2", "6", "3", "0", "6", "5", "7", "4", "8", "8", "6", "7", "1",
      "5", "0", "5", "8", "2", "0", "6", "8", "1", "9", "0", "8", "9", "0", "2",
      "0", "0", "0", "7", "0", "8", "3", "8", "3", "6", "7", "6", "2", "7", "3",
      "8", "5", "4", "8", "4", "5", "8", "1", "7", "7", "1", "1", "5", "3", "1",
      "7", "6", "4", "4", "7", "5", "7", "3", "0", "2", "7", "0", "0", "6", "9",
      "8", "5", "5", "5", "7", "1", "3", "6", "6", "9", "5", "9", "6", "2", "2",
      "8", "4", "2", "9", "1", "4", "8", "1", "9", "8", "6", "0", "8", "3", "4",
      "9", "3", "6", "4", "7", "5", "2", "9", "2", "7", "1", "9", "0", "7", "4",
      "1", "6", "8", "4", "4", "4", "3", "6", "5", "5", "1", "0", "7", "0", "4",
      "3", "4", "2", "7", "1", "1", "5", "5", "9", "6", "9", "9", "5", "0", "8",
      "0", "9", "3", "0", "4", "2", "8", "8", "0", "1", "7", "7", "9", "0", "4",
      "1", "7", "4", "4", "9", "7", "7", "9", "2">>

\* The exponent written by digits s, cut off at ExpCap: a larger exponent
\* gives inf or zero whatever the mantissa of a text of moderate length.
ExpCap == 99999

ExpValue(s) ==
    LET t == DropLeadingZeros(ascii_digits(s))
    IN  IF Len(t) > 5 THEN ExpCap ELSE DigitsValue(t)

\* The double written by sign, the digits of the mantissa, and the decimal
\* exponent e: sign * 0.<digits> * 10^(Len(digits)) * 10^(-e), correctly
\* rounded as the conversion of Python does: overflowing to inf, and below
\* 10^-314 rounded by Float to the grid of the subnormal doubles,
\* underflowing to a signed zero (always below 10^-324, which is less than
\* 2^-1075, half the smallest double).
decimal_value(sign, digits, e) ==
    LET lead == DropLeadingZeros(ascii_digits(digits))
        sig == DropTrailingZeros(lead)
        ee == e - (Len(lead) - Len(sig))
        order == Len(sig) - ee
    IN  IF sig = <<>> THEN Zero(sign)
        ELSE IF order > MaxOrder \/ (order = MaxOrder /\ ~FracLess(sig, MaxBoundary))
        THEN Inf(sign)
        ELSE IF order < 0 - 323 THEN Zero(sign)
        ELSE Float(sign * DigitsValue(sig), ee)

\* float(text): surrounding whitespace is dropped; then
\*   [sign] ("inf" | "infinity" | "nan"), in any case, or
\*   [sign] (digitpart ["." [digitpart]] | "." digitpart)
\*          [("e" | "E") [sign] digitpart].
\* ok is FALSE where Python raises ValueError.  "-nan" is nan.
float(t) ==
    LET s == float_strip(t)
        signed == s # <<>> /\ s[1] \in {"+", "-"}
        sign == IF signed /\ s[1] = "-" THEN 0 - 1 ELSE 1
        body == IF signed THEN Tail(s) ELSE s
        word == ascii_lower(body)
        epos == FindFirst(body, {"e", "E"}, 1)
        mant == IF epos = 0 THEN body ELSE SubSeq(body, 1, epos - 1)
        etext == IF epos = 0 THEN <<>> ELSE SubSeq(body, epos + 1, Len(body))
        esigned == etext # <<>> /\ etext[1] \in {"+", "-"}
        edigits == IF esigned THEN Tail(etext) ELSE etext
        dot == FindFirst(mant, {"."}, 1)
        ip == IF dot = 0 THEN mant ELSE SubSeq(mant, 1, dot - 1)
        fp == IF dot = 0 THEN <<>> ELSE SubSeq(mant, dot + 1, Len(mant))
        good == /\ ip = <<>> \/ DigitPart(ip)
                /\ fp = <<>> \/ DigitPart(fp)
                /\ Len(ip) + Len(fp) > 0
                /\ epos = 0 \/ DigitPart(edigits)
        fdigits == Without(fp, {"_"})
        e10 == IF epos = 0 THEN 0
               ELSE IF esigned /\ etext[1] = "-" THEN 0 - ExpValue(Without(edigits, {"_"}))
               ELSE ExpValue(Without(edigits, {"_"}))
    IN  IF word \in {<<"i", "n", "f">>, <<"i", "n", "f", "i", "n", "i", "t", "y">>}
        THEN [ok |-> TRUE, val |-> Inf(sign)]
        ELSE IF word = <<"n", "a", "n">> THEN [ok |-> TRUE, val |-> NaN]
        ELSE IF good
        THEN [ok |-> TRUE,
              val |-> decimal_value(sign, Without(ip, {"_"}) \o fdigits,
                                    Len(fdigits) - e10)]
        ELSE [ok |-> FALSE, val |-> None]

\* ------------------------------------------------------------------ format

\* Decimal places of the M104 argument: the 3 of the format spec ".3f".
FmtDecimals == 3

RECURSIVE Pow5(_)
Pow5(k) == IF k = 0 THEN 1 ELSE 5 * Pow5(k - 1)

\* h * h modulo m
SquareMod(h, m) == (h * h) % m

\* 2^k modulo m, by repeated squaring
RECURSIVE Pow2Mod(_, _)
Pow2Mod(k, m) ==
    IF k = 0 THEN 1 % m
    ELSE IF k % 2 = 0 THEN SquareMod(Pow2Mod(k \div 2, m), m)
    ELSE (2 * Pow2Mod(k - 1, m)) % m

\* The p with 2^p <= n / den < 2^(p+1), for positive n and den.
RECURSIVE Log2Floor(_, _)
Log2Floor(n, den) ==
    IF n <= 0 \/ den <= 0 THEN 0
    ELSE IF n < den THEN Log2Floor(2 * n, den) - 1
    ELSE IF n \div 2 >= den THEN Log2Floor(n \div 2, den) + 1
    ELSE 0

\* Bits of the significand of a double after the leading one.
FractionBits == 52

\* Where the double nearest to odd / (2 * 10^d) lies: 0 when it is that
\* number, -1 when below it, 1 when above.  The double is m * 2^(p - 52) with
\* m the integer nearest to odd * 2^k / 5^d, k = 52 - p - (d + 1), and the
\* remainder of that division tells on which side m lies (5^d is odd, so the
\* remainder is never half of it).
tie_side(odd, d) ==
    LET p == Log2Floor(odd, 2 * Pow10(d))
        k == FractionBits - p - (d + 1)
        rem == ((odd % Pow5(d)) * Pow2Mod(k, Pow5(d))) % Pow5(d)
    IN  IF rem = 0 THEN 0
        ELSE IF 2 * rem < Pow5(d) THEN 0 - 1
        ELSE 1

\* q + 1/2 units rounded to a whole number of units, given the side on which
\* the double lies; to the even one when the double is the halfway point.
round_tie(q, side) ==
    IF side > 0 \/ (side = 0 /\ q % 2 = 1) THEN q + 1 ELSE q

\* |x| in units of 10^(-d), rounded to the nearest unit as the correctly
\* rounded formatting of the double does: a decimal that lies halfway between
\* two units is a double only when tie_side is 0, and then rounds to the even
\* unit; otherwise the double it denotes lies on one side of the halfway
\* point.  (A decimal of the bounded mantissa that is no tie is far further
\* from the halfway point than from its double.)  A subnormal, and any
\* number below 2^31 * 10^(-d - 10), is less than half a unit, d being far
\* below 300.
RoundScaled(x, d) ==
    LET mag == IF x.num < 0 THEN 0 - x.num ELSE x.num
    IN  IF x.text = Subnormal(1).text \/ x.exp - d >= 10 THEN 0
        ELSE IF x.exp <= d THEN mag * Pow10(d - x.exp)
        ELSE LET unit == Pow10(x.exp - d)
                 q == mag \div unit
                 r == mag % unit
             IN  IF 2 * r > unit THEN q + 1
                 ELSE IF 2 * r < unit THEN q
                 ELSE round_tie(q, tie_side(mag \div 5, d))

\* "-" for a float whose sign bit is set (nan excepted).
sign_text(x) == IF x.num < 0 \/ x = NegZero THEN <<"-">> ELSE <<>>

\* format_f with one decimal place too few.
format_f_short(x, d) ==
    IF x.text = NaN.text THEN NaN.text
    ELSE IF x.text = Inf(1).text THEN sign_text(x) \o x.text
    ELSE sign_text(x)
        \o NatText(RoundScaled(x, d - 1) \div Pow10(d - 1))
        \o (IF d - 1 > 0 THEN <<".">> ELSE <<>>)
        \o PadText(RoundScaled(x, d - 1) % Pow10(d - 1), d - 1)

\* format(x, ".<d>f"): "nan", "inf" or "-inf", or else sign, integer digits
\* and, when d > 0, "." and exactly d fraction digits.
format_f(x, d) ==
    IF x.text = NaN.text THEN NaN.text
    ELSE IF x.text = Inf(1).text THEN sign_text(x) \o x.text
    ELSE sign_text(x)
        \o NatText(RoundScaled(x, d) \div Pow10(d))
        \o (IF d > 0 THEN <<".">> ELSE <<>>)
        \o PadText(RoundScaled(x, d) % Pow10(d), d)

\* ------------------------------------------------------------------ transport

\* The transport as the driver sees it: rx is the unread input, one element per
\* readline() call that will return data (the bytes up to and including a
\* newline, or the bytes that had arrived when the read timeout fired); log is
\* the writes and reads made so far in the current call, in order.
Port(q) == [rx |-> q, log |-> <<>>]

\* serial.Serial.readline(): the next chunk, b'' when nothing arrives in time.
readline(p) ==
    [data |-> IF p.rx = <<>> THEN <<>> ELSE Head(p.rx),
     port |-> [rx |-> IF p.rx = <<>> THEN <<>> ELSE Tail(p.rx),
               log |-> Append(p.log,
                   [ev |-> "read",
                    data |-> IF p.rx = <<>> THEN <<>> ELSE Head(p.rx)])]]

\* serial.Serial.write(data)
write(p, data) ==
    [rx |-> p.rx, log |-> Append(p.log, [ev |-> "write", data |-> data])]

\* ------------------------------------------------------------------ driver

\* Number of acknowledgment lines read by _wait_for_ack: range(2).
AckLines == 2

OkText == <<"o", "k">>

NoneText == <<"n", "o", "n", "e">>

M115 == <<"M", "1", "1", "5">>

M105 == <<"M", "1", "0", "5">>

M18 == <<"M", "1", "8">>

M104Prefix == <<"M", "1", "0", "4", " ", "S">>

KeyModel == <<"m", "o", "d", "e", "l">>

KeySerial == <<"s", "e", "r", "i", "a", "l">>

KeyVersion == <<"v", "e", "r", "s", "i", "o", "n">>

KeyC == <<"C">>

KeyT == <<"T">>

\* A raised exception (exc = "none": normal completion); msg holds the pieces
\* of text the message embeds.
Raise(exc, msg, p) == [exc |-> exc, msg |-> msg, port |-> p]

\* _send_command that discards the unread input (reset_input_buffer) before
\* it writes.
_send_command_flush(p, cmd) == write([p EXCEPT !.rx = <<>>], cmd \o <<"\r", "\n">>)

\* TempdeckControl._send_command
_send_command(p, cmd) == write(p, cmd \o <<"\r", "\n">>)

\* TempdeckControl._read_line, from the bytes readline() returned (r.data):
\* decode('ascii'), the timeout test, rstrip().
read_line_of(r) ==
    IF \E i \in 1..Len(r.data) : r.data[i] \in NonAscii
    THEN [exc |-> "UnicodeDecodeError", msg |-> <<>>, line |-> <<>>, port |-> r.port]
    ELSE IF r.data = <<>> \/ r.data[Len(r.data)] # "\n"
    THEN [exc |-> "ResponseTimeout", msg |-> <<>>, line |-> <<>>, port |-> r.port]
    ELSE [exc |-> "none", msg |-> <<>>, line |-> rstrip(r.data), port |-> r.port]

\* _read_line that reads once more when the first read timed out.
_read_line_retry(p) ==
    IF read_line_of(readline(p)).exc = "ResponseTimeout"
    THEN read_line_of(readline(readline(p).port))
    ELSE read_line_of(readline(p))

\* TempdeckControl._read_line
_read_line(p) == read_line_of(readline(p))

\* TempdeckControl._wait_for_ack: ack_loop(p, i) is the loop from iteration i
\* on, ack_body(r, i) the body of iteration i once its line r was read.
RECURSIVE ack_loop(_, _)
RECURSIVE ack_body(_, _)
\* ack_body with the rest of the acknowledgment drained before raising.
ack_body_drain(r, i) ==
    IF r.exc # "none" THEN Raise(r.exc, r.msg, r.port)
    ELSE IF r.line # OkText
    THEN Raise("InvalidResponse", <<r.line>>,
               IF i + 1 < AckLines THEN readline(r.port).port ELSE r.port)
    ELSE ack_loop(r.port, i + 1)

ack_loop(p, i) ==
    IF i >= AckLines THEN Raise("none", <<>>, p)
    ELSE ack_body(_read_line(p), i)

ack_body(r, i) ==
    IF r.exc # "none" THEN Raise(r.exc, r.msg, r.port)
    ELSE IF r.line # OkText THEN Raise("InvalidResponse", <<r.line>>, r.port)
    ELSE ack_loop(r.port, i + 1)

\* _wait_for_ack reading one acknowledgment line more.
_wait_for_ack_extra(p) == ack_loop(p, 0 - 1)

\* TempdeckControl._wait_for_ack
_wait_for_ack(p) == ack_loop(p, 0)

\* convert with the none sentinel read as the number zero.
convert_none_zero(conv, t) ==
    IF conv = "str" THEN [ok |-> TRUE, val |-> Str(t)]
    ELSE IF conv = "float_or_none" /\ t = NoneText THEN [ok |-> TRUE, val |-> Float(0, 0)]
    ELSE float(t)

\* The conversions named in a types map: str, float, and get_temps's
\* float_or_none.  ok is FALSE where the conversion raises ValueError.
convert(conv, t) ==
    IF conv = "str" THEN [ok |-> TRUE, val |-> Str(t)]
    ELSE IF conv = "float_or_none" /\ t = NoneText THEN [ok |-> TRUE, val |-> None]
    ELSE float(t)

\* types.get(left, str)
types_get(types, left) == IF left \in DOMAIN types THEN types[left] ELSE "str"

\* info.setdefault(left, v): a key already present keeps its value.
dict_set_first(info, left, v) ==
    [k \in (DOMAIN info) \cup {left} |-> IF k \in DOMAIN info THEN info[k] ELSE v]

\* info[left] = v
dict_set(info, left, v) ==
    [k \in (DOMAIN info) \cup {left} |-> IF k = left THEN v ELSE info[k]]

\* The parsing loop of TempdeckControl._ask: parse_pieces over the remaining
\* pieces, parse_parts the unpacking of one split piece, parse_value the
\* assignment of its converted value.
RECURSIVE parse_pieces(_, _, _, _)
RECURSIVE parse_parts(_, _, _, _, _)
RECURSIVE parse_value(_, _, _, _, _, _)
\* parse_parts skipping a piece that has no colon instead of raising.
parse_parts_skip(parts, pieces, types, info, response) ==
    IF Len(parts) # 2
    THEN parse_pieces(Tail(pieces), types, info, response)
    ELSE parse_value(convert(types_get(types, parts[1]), parts[2]), parts[1],
                     pieces, types, info, response)

parse_pieces(pieces, types, info, response) ==
    IF pieces = <<>> THEN [exc |-> "none", msg |-> <<>>, info |-> info]
    ELSE parse_parts(split_colon(Head(pieces)), pieces, types, info, response)

parse_parts(parts, pieces, types, info, response) ==
    IF Len(parts) # 2
    THEN [exc |-> "InvalidResponse", msg |-> <<Head(pieces), response>>, info |-> <<>>]
    ELSE parse_value(convert(types_get(types, parts[1]), parts[2]), parts[1],
                     pieces, types, info, response)

parse_value(v, left, pieces, types, info, response) ==
    IF ~v.ok
    THEN [exc |-> "InvalidResponse", msg |-> <<Head(pieces), response>>, info |-> <<>>]
    ELSE parse_pieces(Tail(pieces), types, dict_set(info, left, v.val), response)

\* TempdeckControl._ask after the acknowledgment a was awaited: the parse of
\* the response.
ask_parse(a, parsed, response) ==
    IF a.exc # "none"
    THEN [exc |-> a.exc, msg |-> a.msg, info |-> <<>>, response |-> response, port |-> a.port]
    ELSE [exc |-> parsed.exc, msg |-> parsed.msg, info |-> parsed.info,
          response |-> response, port |-> a.port]

\* ask_read that parses the response before it reads the acknowledgment, and
\* raises a parse error with the acknowledgment still unread.
ask_parse_first(parsed, response, p) ==
    IF parsed.exc # "none"
    THEN [exc |-> parsed.exc, msg |-> parsed.msg, info |-> <<>>,
          response |-> response, port |-> p]
    ELSE ask_parse(_wait_for_ack(p), parsed, response)

ask_read_parse_first(r, response, types) ==
    IF r.exc # "none"
    THEN [exc |-> r.exc, msg |-> r.msg, info |-> <<>>, response |-> <<>>, port |-> r.port]
    ELSE ask_parse_first(parse_pieces(split(response), types, <<>>, response),
                         response, r.port)

\* TempdeckControl._ask after the response line r was read: strip(), then
\* the acknowledgment, then the parse.
ask_read(r, response, types) ==
    IF r.exc # "none"
    THEN [exc |-> r.exc, msg |-> r.msg, info |-> <<>>, response |-> <<>>, port |-> r.port]
    ELSE ask_parse(_wait_for_ack(r.port),
                   parse_pieces(split(response), types, <<>>, response), response)

ask_line(r, types) == ask_read(r, strip(r.line), types)

\* TempdeckControl._ask
_ask(p, cmd, types) == ask_line(_read_line(_send_command(p, cmd)), types)

\* First key of keys that is not in info, <<>> when all are present.
RECURSIVE first_missing(_, _)
first_missing(keys, info) ==
    IF keys = <<>> THEN <<>>
    ELSE IF Head(keys)[1] \notin DOMAIN info THEN Head(keys)
    ELSE first_missing(Tail(keys), info)

NoAttrs == [model |-> Unset, serial |-> Unset, version |-> Unset]

\* The keys _populate_device_info requires, each with its name in the message.
IdentKeys == <<<<KeyModel, KeyModel>>, <<KeySerial, KeySerial>>, <<KeyVersion, KeyVersion>>>>

\* populate_of without the check of the last key: a response with no version
\* is accepted and _fw_version is left unassigned.
populate_of_lenient(a, miss) ==
    IF a.exc # "none"
    THEN [exc |-> a.exc, msg |-> a.msg, port |-> a.port, ret |-> <<>>, attrs |-> NoAttrs]
    ELSE IF miss # <<>> /\ miss[1] # KeyVersion
    THEN [exc |-> "InvalidResponse", msg |-> <<miss[2], a.response>>,
          port |-> a.port, ret |-> <<>>, attrs |-> NoAttrs]
    ELSE [exc |-> "none", msg |-> <<>>, port |-> a.port, ret |-> <<>>,
          attrs |-> [model |-> a.info[KeyModel], serial |-> a.info[KeySerial],
                     version |-> IF miss # <<>> THEN Unset ELSE a.info[KeyVersion]]]

\* TempdeckControl._populate_device_info after _ask returned a: the key
\* checks, then the three assignments (attrs; Unset where it raised first).
populate_of(a, miss) ==
    IF a.exc # "none"
    THEN [exc |-> a.exc, msg |-> a.msg, port |-> a.port, ret |-> <<>>, attrs |-> NoAttrs]
    ELSE IF miss # <<>>
    THEN [exc |-> "InvalidResponse", msg |-> <<miss[2], a.response>>,
          port |-> a.port, ret |-> <<>>, attrs |-> NoAttrs]
    ELSE [exc |-> "none", msg |-> <<>>, port |-> a.port, ret |-> <<>>,
          attrs |-> [model |-> a.info[KeyModel], serial |-> a.info[KeySerial],
                     version |-> a.info[KeyVersion]]]

populate_checked(a) == populate_of(a, first_missing(IdentKeys, a.info))

\* TempdeckControl._populate_device_info
_populate_device_info(p) == populate_checked(_ask(p, M115, <<>>))

\* TempdeckControl.set_target_temp after the acknowledgment a was awaited.
set_target_of(a) == [exc |-> a.exc, msg |-> a.msg, port |-> a.port, ret |-> <<>>]

\* TempdeckControl.set_target_temp
set_target_temp(p, temp) ==
    set_target_of(_wait_for_ack(
        _send_command(p, M104Prefix \o format_f(temp, FmtDecimals))))

\* The types map get_temps passes to _ask.
TempTypes == [k \in {KeyC, KeyT} |-> IF k = KeyC THEN "float" ELSE "float_or_none"]

CurrentTempDesc ==
    <<"c", "u", "r", "r", "e", "n", "t", " ", "t", "e", "m", "p">>

TargetTempDesc ==
    <<"t", "a", "r", "g", "e", "t", " ", "t", "e", "m", "p">>

\* The keys get_temps requires, each with its description in the message.
TempKeys == <<<<KeyC, CurrentTempDesc>>, <<KeyT, TargetTempDesc>>>>

\* temps_of returning the pair in the order <<current temp, target temp>>.
temps_of_swapped(a, miss) ==
    IF a.exc # "none"
    THEN [exc |-> a.exc, msg |-> a.msg, port |-> a.port, ret |-> <<>>]
    ELSE IF miss # <<>>
    THEN [exc |-> "InvalidResponse", msg |-> <<miss[2], a.response>>,
          port |-> a.port, ret |-> <<>>]
    ELSE [exc |-> "none", msg |-> <<>>, port |-> a.port,
          ret |-> <<a.info[KeyC], a.info[KeyT]>>]

\* TempdeckControl.get_temps after _ask returned a: the key checks and the
\* returned pair <<target temp, current temp>>.
temps_of(a, miss) ==
    IF a.exc # "none"
    THEN [exc |-> a.exc, msg |-> a.msg, port |-> a.port, ret |-> <<>>]
    ELSE IF miss # <<>>
    THEN [exc |-> "InvalidResponse", msg |-> <<miss[2], a.response>>,
          port |-> a.port, ret |-> <<>>]
    ELSE [exc |-> "none", msg |-> <<>>, port |-> a.port,
          ret |-> <<a.info[KeyT], a.info[KeyC]>>]

temps_checked(a) == temps_of(a, first_missing(TempKeys, a.info))

\* TempdeckControl.get_temps
get_temps(p) == temps_checked(_ask(p, M105, TempTypes))

\* Element i of the pair get_temps returned, when it returned.
temps_element(g, i) == [g EXCEPT !.ret = IF g.exc = "none" THEN <<g.ret[i]>> ELSE <<>>]

\* TempdeckControl.get_target_temp
get_target_temp(p) == temps_element(get_temps(p), 1)

\* TempdeckControl.get_current_temp
get_current_temp(p) == temps_element(get_temps(p), 2)

\* TempdeckControl.deactivate
deactivate(p) ==
    [exc |-> "none", msg |-> <<>>, port |-> _send_command(p, M18), ret |-> <<>>]

\* ------------------------------------------------------------------ state

VARIABLES
    rx,           \* unread input of the serial port (ser_port), oldest first
    state,        \* "Uninitialized" (no constructed object) or "Ready"
    _model_name,   \* self._model_name
    _serial_no,    \* self._serial_no
    _fw_version,   \* self._fw_version
    dev_target,   \* the device's setpoint as it reports it (text)
    last,         \* the call that has just returned (NoCall after any other step)
    ports,        \* what serial.tools.list_ports.comports() enumerates
    disc,         \* the classmethod call that has just ended (NoDisc: none yet)
    cli           \* the cli_main run that has just ended (NoCli: none yet)

vars ==
    <<rx, state, _model_name, _serial_no, _fw_version, dev_target, last, ports, disc,
      cli>>

\* The variables of device discovery and of the command line.
hostvars == <<ports, disc, cli>>

\* An optional argument or attribute that holds value v.  One that is None
\* is a record with some = FALSE, which no value a caller passes equals.
Some(v) == [some |-> TRUE, val |-> v]

\* usb_vidpid=None
NoVidPid == [some |-> FALSE, val |-> <<0, 0>>]

NoDisc ==
    [op |-> "none", usb_vidpid |-> NoVidPid, location |-> "", portname |-> "",
     exc |-> "none", ret |-> <<>>, opened |-> <<>>, log |-> <<>>]

NoCli ==
    [args |-> [port |-> "", usb |-> "", list_devices |-> FALSE, set_target |-> None,
               prompt_target |-> FALSE, deactivate |-> FALSE],
     user_input |-> <<>>, input |-> <<>>,
     code |-> 0, exc |-> "none", calls |-> <<>>, log |-> <<>>]

\* No port is enumerated and neither a classmethod nor cli_main has run: the
\* caller constructs TempdeckControl on a serial object of its own.
NoHost ==
    /\ ports = <<>>
    /\ disc = NoDisc
    /\ cli = NoCli

NoCall ==
    [op |-> "none", arg |-> None, exc |-> "none", msg |-> <<>>, ret |-> <<>>,
     input |-> <<>>, log |-> <<>>, after |-> "none"]

\* The record of a finished call: res is what the method computed on input,
\* after is how the call made just before it ended ("none": it returned, or
\* no call was made just before).
CallRecord(op, arg, res, input) ==
    [op |-> op, arg |-> arg, exc |-> res.exc, msg |-> res.msg, ret |-> res.ret,
     input |-> input, log |-> res.port.log, after |-> last.exc]

\* TempdeckControl.__init__ when _populate_device_info ended as res on a port
\* whose unread input was q: the object exists (Ready) only if it returned.
DoOpen(res, q) ==
    /\ state = "Uninitialized"
    /\ rx' = res.port.rx
    /\ state' = IF res.exc = "none" THEN "Ready" ELSE "Uninitialized"
    /\ _model_name' = res.attrs.model
    /\ _serial_no' = res.attrs.serial
    /\ _fw_version' = res.attrs.version
    /\ last' = CallRecord("open", None, res, q)

\* DoCall that forgets the firmware version when the call raised.
DoCall_forgetting(op, arg, res, q) ==
    /\ state = "Ready"
    /\ rx' = res.port.rx
    /\ last' = CallRecord(op, arg, res, q)
    /\ _fw_version' = IF res.exc = "none" THEN _fw_version ELSE Unset
    /\ UNCHANGED <<state, _model_name, _serial_no>>
    /\ UNCHANGED hostvars

\* DoCall on an object that latches a failure: once a call has raised, the
\* next call raises the same error without touching the transport.
DoCall_latched(op, arg, res, q) ==
    /\ state = "Ready"
    /\ rx' = IF last.exc = "none" THEN res.port.rx ELSE q
    /\ last' = IF last.exc = "none" THEN CallRecord(op, arg, res, q)
               ELSE [op |-> op, arg |-> arg, exc |-> last.exc, msg |-> last.msg,
                     ret |-> <<>>, input |-> q, log |-> <<>>, after |-> last.exc]
    /\ UNCHANGED <<state, _model_name, _serial_no, _fw_version>>
    /\ UNCHANGED hostvars

\* A method call on the Ready object; the identity attributes are not assigned.
DoCall(op, arg, res, q) ==
    /\ state = "Ready"
    /\ rx' = res.port.rx
    /\ last' = CallRecord(op, arg, res, q)
    /\ UNCHANGED <<state, _model_name, _serial_no, _fw_version>>
    /\ UNCHANGED hostvars

\* TempdeckControl.model_name
model_name == _model_name

\* TempdeckControl.serial_no
serial_no == _serial_no

\* TempdeckControl.fw_version
fw_version == _fw_version

\* ------------------------------------------------------------------ inputs

\* The acknowledgment line as the firmware sends it.
OkLine ==
    <<"o", "k", "\r", "\n">>

ErrorLine ==
    <<"e", "r", "r", "o", "r", "\n">>

\* The start of a line, cut short by the read timeout.
PartialLine ==
    <<"o", "k">>

IdentLine ==
    <<"m", "o", "d", "e", "l", ":", "T", "D", " ", "s", "e", "r", "i", "a",
      "l", ":", "A", "1", " ", "v", "e", "r", "s", "i", "o", "n", ":", "v",
      "2", "\r", "\n">>

TempsLine ==
    <<"C", ":", "2", "5", ".", "5", " ", "T", ":", "n", "o", "n", "e", "\r",
      "\n">>

\* An M105 response whose C value is not a number.
TempsBadC ==
    <<"C", ":", "a", "b", "c", " ", "T", ":", "n", "o", "n", "e", "\n">>

\* What the device may send in the general specification.
Catalog == {OkLine, ErrorLine, PartialLine, IdentLine, TempsLine, TempsBadC}

\* Target temperatures a caller passes to set_target_temp: 35.0, -10.25,
\* 95.1234, 0.0006, -0.0004, 1000.5; 0.0005, whose double lies above the
\* decimal, 10.0055, whose double lies below, and 0.0625, a double halfway
\* between 0.062 and 0.063; -0.0, nan and -inf.
Temps ==
    {Float(35, 0), Float(-1025, 2), Float(951234, 4), Float(6, 4), Float(-4, 4),
     Float(10005, 1), Float(5, 4), Float(100055, 4), Float(625, 4), NegZero, NaN,
     Inf(0 - 1)}

\* ------------------------------------------------------------------ actions

Init ==
    /\ rx = <<>>
    /\ state = "Uninitialized"
    /\ _model_name = Unset
    /\ _serial_no = Unset
    /\ _fw_version = Unset
    /\ dev_target = NoneText
    /\ last = NoCall
    /\ NoHost

\* The device sends a line (or a fragment followed by silence).
DeviceSend ==
    /\ Len(rx) < MaxRx
    /\ \E chunk \in Catalog : rx' = Append(rx, chunk)
    /\ last' = NoCall
    /\ UNCHANGED <<state, _model_name, _serial_no, _fw_version, dev_target>>
    /\ UNCHANGED hostvars

Open ==
    /\ DoOpen(_populate_device_info(Port(rx)), rx)
    /\ UNCHANGED dev_target
    /\ UNCHANGED hostvars

SetTargetTemp ==
    \E temp \in Temps :
        /\ DoCall("set_target_temp", temp, set_target_temp(Port(rx), temp), rx)
        /\ UNCHANGED dev_target

GetTemps ==
    /\ DoCall("get_temps", None, get_temps(Port(rx)), rx)
    /\ UNCHANGED dev_target

GetTargetTemp ==
    /\ DoCall("get_target_temp", None, get_target_temp(Port(rx)), rx)
    /\ UNCHANGED dev_target

GetCurrentTemp ==
    /\ DoCall("get_current_temp", None, get_current_temp(Port(rx)), rx)
    /\ UNCHANGED dev_target

Deactivate ==
    /\ DoCall("deactivate", None, deactivate(Port(rx)), rx)
    /\ UNCHANGED dev_target

Next ==
    \/ DeviceSend
    \/ Open
    \/ SetTargetTemp
    \/ GetTemps
    \/ GetTargetTemp
    \/ GetCurrentTemp
    \/ Deactivate

Spec == Init /\ [][Next]_vars

\* ------------------------------------------------------------------ identify

\* The three keys in another order, an unknown key, a colon inside a value.
IdentPermuted ==
    <<"v", "e", "r", "s", "i", "o", "n", ":", "v", "2", " ", "f", "w", ":",
      "x", " ", "s", "e", "r", "i", "a", "l", ":", "A", ":", "1", " ", "m",
      "o", "d", "e", "l", ":", "T", "D", "\n">>

IdentNoModel ==
    <<"s", "e", "r", "i", "a", "l", ":", "A", "1", " ", "v", "e", "r", "s",
      "i", "o", "n", ":", "v", "2", "\n">>

IdentNoSerial ==
    <<"m", "o", "d", "e", "l", ":", "T", "D", " ", "v", "e", "r", "s", "i",
      "o", "n", ":", "v", "2", "\r", "\n">>

IdentNoVersion ==
    <<"m", "o", "d", "e", "l", ":", "T", "D", " ", "s", "e", "r", "i", "a",
      "l", ":", "A", "1", "\n">>

\* An empty line.
EmptyLine ==
    <<"\n">>

\* What the device may send while the connection is opened.
IdentCatalog ==
    {OkLine, ErrorLine, PartialLine, IdentLine, IdentPermuted, IdentNoModel,
     IdentNoSerial, IdentNoVersion, EmptyLine}

IdentSend ==
    /\ Len(rx) < MaxRx
    /\ \E chunk \in IdentCatalog : rx' = Append(rx, chunk)
    /\ last' = NoCall
    /\ UNCHANGED <<state, _model_name, _serial_no, _fw_version, dev_target>>
    /\ UNCHANGED hostvars

NextIdentify == IdentSend \/ Open

\* Opening a connection against every identify response of IdentCatalog.
SpecIdentify == Init /\ [][NextIdentify]_vars

\* ------------------------------------------------------------------ temperatures

TempsNoneNeg ==
    <<"C", ":", "-", "4", " ", "T", ":", "n", "o", "n", "e", "\n">>

TempsBoth ==
    <<"C", ":", "2", "5", ".", "5", " ", "T", ":", "2", "0", ".", "0", "\n">>

TempsBothSwapped ==
    <<"T", ":", "2", "0", ".", "0", " ", "C", ":", "2", "5", ".", "5", "\n">>

\* Signs, padding, a trailing zero, a bare point, an unknown key.
TempsSigned ==
    <<" ", "C", ":", "-", "4", ".", "5", "0", " ", " ", "T", ":", "+", "7",
      ".", " ", "X", ":", "y", "\r", "\n">>

TempsNoColon ==
    <<"C", "2", "5", ".", "5", " ", "T", ":", "2", "0", ".", "0", "\n">>

\* Both keys, and a further token without a colon.
TempsJunk ==
    <<"C", ":", "1", " ", "T", ":", "2", " ", "j", "u", "n", "k", "\n">>

TempsNoneC ==
    <<"C", ":", "n", "o", "n", "e", " ", "T", ":", "2", "0", "\n">>

TempsBadT ==
    <<"C", ":", "2", "5", ".", "5", " ", "T", ":", "a", "b", "c", "\n">>

TempsNoT ==
    <<"C", ":", "2", "5", ".", "5", "\n">>

TempsNoC ==
    <<"T", ":", "2", "0", ".", "0", "\n">>

\* M105 responses that repeat a key.
TempsDupC ==
    <<"C", ":", "1", ".", "0", " ", "C", ":", "2", ".", "0", " ", "T", ":", "n", "o",
      "n", "e", "\n">>

TempsDupT ==
    <<"T", ":", "2", "0", " ", "C", ":", "5", " ", "T", ":", "n", "o", "n", "e", "\n">>

\* What the device may send to a Ready connection that reads temperatures.
TempsCatalog ==
    {OkLine, ErrorLine, PartialLine, EmptyLine, TempsLine, TempsNoneNeg, TempsBoth,
     TempsBothSwapped, TempsSigned, TempsNoColon, TempsJunk, TempsBadC,
     TempsNoneC, TempsBadT, TempsNoT, TempsNoC, TempsDupC, TempsDupT}

\* The state after a successful construction against IdentLine.
InitReady ==
    /\ rx = <<>>
    /\ state = "Ready"
    /\ _model_name = Str(<<"T", "D">>)
    /\ _serial_no = Str(<<"A", "1">>)
    /\ _fw_version = Str(<<"v", "2">>)
    /\ dev_target = NoneText
    /\ last = NoCall
    /\ NoHost

TempsSend ==
    /\ Len(rx) < MaxRx
    /\ \E chunk \in TempsCatalog : rx' = Append(rx, chunk)
    /\ last' = NoCall
    /\ UNCHANGED <<state, _model_name, _serial_no, _fw_version, dev_target>>
    /\ UNCHANGED hostvars

NextTemps == TempsSend \/ GetTemps \/ GetTargetTemp \/ GetCurrentTemp

\* Reading temperatures against every M105 response of TempsCatalog.
SpecTemps == InitReady /\ [][NextTemps]_vars

\* ------------------------------------------------------------------ device

\* A device that answers every command as the wire protocol prescribes:
\* M115 and M105 with one data line and two ok lines, M104 and M18 with two
\* ok lines.  target is its setpoint as text, cur its measured temperature.
device_reply(cmd, target, cur) ==
    IF cmd = M115 THEN <<IdentLine, OkLine, OkLine>>
    ELSE IF cmd = M105
    THEN <<(<<"C", ":">> \o cur \o <<" ", "T", ":">> \o target \o <<"\r", "\n">>),
           OkLine, OkLine>>
    ELSE <<OkLine, OkLine>>

\* The device's setpoint after it processed cmd.
device_target(cmd, target) ==
    IF cmd = M18 THEN NoneText
    ELSE IF Len(cmd) > Len(M104Prefix) /\ SubSeq(cmd, 1, Len(M104Prefix)) = M104Prefix
    THEN SubSeq(cmd, Len(M104Prefix) + 1, Len(cmd))
    ELSE target

\* Temperatures the device may measure: 25.5, 4, -1.25.
DeviceCurrent == {<<"2", "5", ".", "5">>, <<"4">>, <<"-", "1", ".", "2", "5">>}

\* The command a method writes first, whatever it then reads.
CmdSetTarget(temp) == M104Prefix \o format_f(temp, FmtDecimals)

InitDevice == Init

DevOpen ==
    /\ Len(rx) < MaxRx
    /\ \E cur \in DeviceCurrent :
          DoOpen(_populate_device_info(Port(rx \o device_reply(M115, dev_target, cur))),
                 rx \o device_reply(M115, dev_target, cur))
    /\ dev_target' = device_target(M115, dev_target)
    /\ UNCHANGED hostvars

DevSetTargetTemp ==
    /\ Len(rx) < MaxRx
    /\ \E temp \in Temps, cur \in DeviceCurrent :
          /\ DoCall("set_target_temp", temp,
                    set_target_temp(
                        Port(rx \o device_reply(CmdSetTarget(temp), dev_target, cur)), temp),
                    rx \o device_reply(CmdSetTarget(temp), dev_target, cur))
          /\ dev_target' = device_target(CmdSetTarget(temp), dev_target)

DevGetTemps ==
    /\ Len(rx) < MaxRx
    /\ \E cur \in DeviceCurrent :
          DoCall("get_temps", None,
                 get_temps(Port(rx \o device_reply(M105, dev_target, cur))),
                 rx \o device_reply(M105, dev_target, cur))
    /\ dev_target' = device_target(M105, dev_target)

DevGetTargetTemp ==
    /\ Len(rx) < MaxRx
    /\ \E cur \in DeviceCurrent :
          DoCall("get_target_temp", None,
                 get_target_temp(Port(rx \o device_reply(M105, dev_target, cur))),
                 rx \o device_reply(M105, dev_target, cur))
    /\ dev_target' = device_target(M105, dev_target)

DevGetCurrentTemp ==
    /\ Len(rx) < MaxRx
    /\ \E cur \in DeviceCurrent :
          DoCall("get_current_temp", None,
                 get_current_temp(Port(rx \o device_reply(M105, dev_target, cur))),
                 rx \o device_reply(M105, dev_target, cur))
    /\ dev_target' = device_target(M105, dev_target)

DevDeactivate ==
    /\ Len(rx) < MaxRx
    /\ \E cur \in DeviceCurrent :
          DoCall("deactivate", None,
                 deactivate(Port(rx \o device_reply(M18, dev_target, cur))),
                 rx \o device_reply(M18, dev_target, cur))
    /\ dev_target' = device_target(M18, dev_target)

NextDevice ==
    \/ DevOpen
    \/ DevSetTargetTemp
    \/ DevGetTemps
    \/ DevGetTargetTemp
    \/ DevGetCurrentTemp
    \/ DevDeactivate

\* The driver against the protocol-following device: each call's command is
\* answered during the call, after whatever was left unread before it.
SpecDevice == InitDevice /\ [][NextDevice]_vars

\* ------------------------------------------------------------------ claims

\* A chunk that is a newline-terminated line.
Complete(c) == c # <<>> /\ c[Len(c)] = "\n"

\* What the i-th readline() of a call returns on unread input q.
At(q, i) == IF i <= Len(q) THEN q[i] ELSE <<>>

\* A chunk that is the acknowledgment line.
AckOk(c) == c = OkLine

\* Chunks the last call took from the transport.
Consumed == Len(last.input) - Len(rx)

\* The events of kind ev in a call's log, in order.
RECURSIVE EventsOf(_, _)
EventsOf(log, ev) ==
    IF log = <<>> THEN <<>>
    ELSE (IF Head(log).ev = ev THEN <<Head(log).data>> ELSE <<>>) \o EventsOf(Tail(log), ev)

Reads == Len(EventsOf(last.log, "read"))

Written == EventsOf(last.log, "write")

CRLF == <<"\r", "\n">>

\* The outcome the two-line acknowledgment convention prescribes when the
\* acknowledgment is read from position i of q on.
ExpectedAck(q, i) ==
    IF ~Complete(At(q, i)) THEN "ResponseTimeout"
    ELSE IF ~AckOk(At(q, i)) THEN "InvalidResponse"
    ELSE IF ~Complete(At(q, i + 1)) THEN "ResponseTimeout"
    ELSE IF ~AckOk(At(q, i + 1)) THEN "InvalidResponse"
    ELSE "none"

\* Lines before the acknowledgment in the response to an operation.
DataLines(op) == IF op \in {"set_target_temp", "deactivate"} THEN 0 ELSE 1

\* C1: deactivate() writes the single command M18, then reads and validates
\* the two-line acknowledgment: it returns only after consuming two ok lines,
\* fails with InvalidResponse if a line is not ok and with ResponseTimeout if
\* a line does not arrive.
C1_DeactivateAwaitsAck ==
    last.op = "deactivate" =>
        /\ Written = <<M18 \o CRLF>>
        /\ last.exc = ExpectedAck(last.input, 1)
        /\ last.exc = "none" => Consumed = 2 /\ Reads = 2

\* C2: against a device that answers every command as the wire protocol
\* prescribes, every call after a successful open succeeds, and when a call
\* has returned no line sent by the device remains unread.
C2_FaithfulDeviceInSync ==
    last.op # "none" => last.exc = "none" /\ rx = <<>>

\* C3: in _wait_for_ack, a line that is not exactly ok raises InvalidResponse
\* and no further line is read for that call: a non-ok first acknowledgment
\* line leaves the second line unread.
C3_NonOkAckStopsReading ==
    last.op \in {"open", "set_target_temp", "get_temps", "get_target_temp",
                 "get_current_temp"} =>
        \A k \in 1..AckLines :
            LET n == DataLines(last.op) + k
            IN  (/\ \A j \in 1..n : Complete(At(last.input, j))
                 /\ \A j \in (DataLines(last.op) + 1)..(n - 1) : AckOk(At(last.input, j))
                 /\ ~AckOk(At(last.input, n)))
                => /\ last.exc = "InvalidResponse"
                   /\ last.msg = <<rstrip(At(last.input, n))>>
                   /\ Reads = n
                   /\ rx = SubSeq(last.input, n + 1, Len(last.input))

\* A non-ok first acknowledgment line was read and the line after it is
\* still unread.
C3_Witness ==
    /\ last.op = "set_target_temp"
    /\ last.input = <<ErrorLine, OkLine>>
    /\ last.exc = "InvalidResponse"
    /\ rx = <<OkLine>>

\* C4: when the data line, the first or the second acknowledgment line never
\* arrives newline-terminated (nothing, or a partial line), every operation
\* (open, set_target_temp, get_temps, get_target_temp, get_current_temp,
\* deactivate) fails with ResponseTimeout.
C4_MissingLineTimesOut ==
    last.op # "none" =>
        \A n \in 1..(DataLines(last.op) + AckLines) :
            (/\ \A j \in 1..(n - 1) : Complete(At(last.input, j))
             /\ \A j \in (DataLines(last.op) + 1)..(n - 1) : AckOk(At(last.input, j))
             /\ ~Complete(At(last.input, n)))
            => last.exc = "ResponseTimeout"

\* The identity attributes are all assigned.
IdentityAssigned ==
    /\ _model_name.kind = "str"
    /\ _serial_no.kind = "str"
    /\ _fw_version.kind = "str"

\* None of the identity attributes is assigned.
IdentityUnassigned ==
    /\ _model_name = Unset
    /\ _serial_no = Unset
    /\ _fw_version = Unset

\* The complete lines of IdentCatalog that lack at least one of the keys
\* model, serial, version.
IdentLacking ==
    {IdentNoModel, IdentNoSerial, IdentNoVersion, EmptyLine, OkLine, ErrorLine}

\* C5: for every identify response that lacks any of the keys model, serial,
\* version, opening the connection fails with InvalidResponse; the Ready state
\* exists only if one identify exchange yielded all three identity fields, and
\* a failed open assigns none of the three fields.
C5_IdentifyNeedsAllKeys ==
    /\ state = "Ready" => IdentityAssigned
    /\ state = "Uninitialized" => IdentityUnassigned
    /\ last.op = "open" =>
          /\ (/\ At(last.input, 1) \in IdentLacking
              /\ Complete(At(last.input, 2))
              /\ Complete(At(last.input, 3)))
             => last.exc = "InvalidResponse"
          /\ At(last.input, 1) \in IdentLacking => last.exc # "none"
          /\ last.exc # "none" => state = "Uninitialized"
          /\ last.exc = "none" =>
                /\ state = "Ready"
                /\ At(last.input, 1) \notin IdentLacking
                /\ Written = <<M115 \o CRLF>>
                /\ Consumed = 1 + AckLines

\* An open that read a response without the version key, acknowledged twice,
\* and failed.
C5_Witness ==
    /\ last.op = "open"
    /\ last.input = <<IdentNoVersion, OkLine, OkLine>>
    /\ last.exc = "InvalidResponse"
    /\ state = "Uninitialized"
    /\ IdentityUnassigned

\* The valid identify responses of IdentCatalog with the values they carry:
\* model:TD serial:A1 version:v2, and version:v2 fw:x serial:A:1 model:TD.
IdentCases ==
    {[line |-> IdentLine, model |-> <<"T", "D">>, serial |-> <<"A", "1">>,
      version |-> <<"v", "2">>],
     [line |-> IdentPermuted, model |-> <<"T", "D">>, serial |-> <<"A", ":", "1">>,
      version |-> <<"v", "2">>]}

\* C6: for every identify response line with the keys model, serial and
\* version in any order, with any additional unknown keys, followed by two ok
\* lines, open succeeds and model_name, serial_no and fw_version equal exactly
\* the text values of those three keys.
C6_IdentifyStoresValues ==
    last.op = "open" =>
        \A c \in IdentCases :
            (/\ At(last.input, 1) = c.line
             /\ AckOk(At(last.input, 2))
             /\ AckOk(At(last.input, 3)))
            => /\ last.exc = "none"
               /\ state = "Ready"
               /\ model_name = Str(c.model)
               /\ serial_no = Str(c.serial)
               /\ fw_version = Str(c.version)

\* An open that read the keys in another order, with an unknown key.
C6_Witness ==
    /\ last.op = "open"
    /\ last.input = <<IdentPermuted, OkLine, OkLine>>
    /\ state = "Ready"
    /\ serial_no = Str(<<"A", ":", "1">>)

\* The M105 responses of TempsCatalog that carry a numeric C and a numeric T,
\* with the values they carry: C:25.5 T:20.0, T:20.0 C:25.5 (the same tokens
\* permuted), and C:-4.50 T:+7. with an unknown key.
TempCases ==
    {[line |-> TempsBoth, target |-> Float(20, 0), current |-> Float(255, 1)],
     [line |-> TempsBothSwapped, target |-> Float(20, 0), current |-> Float(255, 1)],
     [line |-> TempsSigned, target |-> Float(7, 0), current |-> Float(-45, 1)]}

\* The data line of the last call was followed by two ok lines.
Acknowledged == AckOk(At(last.input, 2)) /\ AckOk(At(last.input, 3))

\* C7: for every M105 response carrying C:<f1> and T:<f2> followed by two ok
\* lines, get_temps returns (f2, f1), target first and current second, and
\* the result is the same for every permutation of the tokens in the line.
C7_TempsTargetThenCurrent ==
    last.op = "get_temps" =>
        \A c \in TempCases :
            (At(last.input, 1) = c.line /\ Acknowledged)
            => /\ last.exc = "none"
               /\ last.ret = <<c.target, c.current>>

\* get_temps returned (20.0, 25.5) for the line T:20.0 C:25.5.
C7_Witness ==
    /\ last.op = "get_temps"
    /\ last.input = <<TempsBothSwapped, OkLine, OkLine>>
    /\ last.ret = <<Float(20, 0), Float(255, 1)>>

\* The M105 responses of TempsCatalog of the form C:<f> T:none, with <f>:
\* C:25.5 T:none, C:-4 T:none.
NoneCases ==
    {[line |-> TempsLine, current |-> Float(255, 1)],
     [line |-> TempsNoneNeg, current |-> Float(-4, 0)]}

\* C8: for every M105 response of the form C:<f> T:none followed by two ok
\* lines, get_temps returns (unset, f): none becomes the absent value, never
\* numeric zero, and is not treated as a missing T key.
C8_NoneIsAbsent ==
    last.op = "get_temps" =>
        \A c \in NoneCases :
            (At(last.input, 1) = c.line /\ Acknowledged)
            => /\ last.exc = "none"
               /\ last.ret = <<None, c.current>>
               /\ last.ret[1] # Float(0, 0)

\* get_temps returned (None, 25.5) for the line C:25.5 T:none.
C8_Witness ==
    /\ last.op = "get_temps"
    /\ last.input = <<TempsLine, OkLine, OkLine>>
    /\ last.exc = "none"
    /\ last.ret[1] = None

\* The M105 responses of TempsCatalog with a token lacking a colon
\* (C25.5 T:20.0; C:1 T:2 junk), a non-numeric C (C:abc T:none; C:none T:20),
\* a T that is neither numeric nor none (C:25.5 T:abc), or no T or no C key
\* (C:25.5; T:20.0; the empty line).
BadTemps ==
    {TempsNoColon, TempsJunk, TempsBadC, TempsNoneC, TempsBadT, TempsNoT, TempsNoC,
     EmptyLine}

\* C9: when the data line of an M105 exchange is followed by two ok lines,
\* get_temps fails with InvalidResponse if a token lacks a colon, if the value
\* of C is not numeric, if the value of T is neither numeric nor none, or if
\* key C or key T is absent; it never returns a value in these cases.
C9_MalformedTempsRejected ==
    last.op = "get_temps" =>
        /\ (At(last.input, 1) \in BadTemps /\ Acknowledged)
           => last.exc = "InvalidResponse" /\ last.ret = <<>>
        /\ At(last.input, 1) \in BadTemps => last.exc # "none" /\ last.ret = <<>>

\* get_temps failed on a line whose first token lacks the colon.
C9_Witness ==
    /\ last.op = "get_temps"
    /\ last.input = <<TempsNoColon, OkLine, OkLine>>
    /\ last.exc = "InvalidResponse"

\* The temperatures of Temps with the command text set_target_temp must
\* write for each: 35.0, -10.25, 95.1234, 0.0006, -0.0004, 1000.5, 0.0005,
\* 10.0055, 0.0625, -0.0, nan, -inf.
FmtCases ==
    {[temp |-> Float(35, 0),
      cmd |-> <<"M", "1", "0", "4", " ", "S", "3", "5", ".", "0", "0", "0">>],
     [temp |-> Float(-1025, 2),
      cmd |-> <<"M", "1", "0", "4", " ", "S", "-", "1", "0", ".", "2", "5", "0">>],
     [temp |-> Float(951234, 4),
      cmd |-> <<"M", "1", "0", "4", " ", "S", "9", "5", ".", "1", "2", "3">>],
     [temp |-> Float(6, 4),
      cmd |-> <<"M", "1", "0", "4", " ", "S", "0", ".", "0", "0", "1">>],
     [temp |-> Float(-4, 4),
      cmd |-> <<"M", "1", "0", "4", " ", "S", "-", "0", ".", "0", "0", "0">>],
     [temp |-> Float(10005, 1),
      cmd |-> <<"M", "1", "0", "4", " ", "S", "1", "0", "0", "0", ".", "5", "0", "0">>],
     [temp |-> Float(5, 4),
      cmd |-> <<"M", "1", "0", "4", " ", "S", "0", ".", "0", "0", "1">>],
     [temp |-> Float(100055, 4),
      cmd |-> <<"M", "1", "0", "4", " ", "S", "1", "0", ".", "0", "0", "5">>],
     [temp |-> Float(625, 4),
      cmd |-> <<"M", "1", "0", "4", " ", "S", "0", ".", "0", "6", "2">>],
     [temp |-> NegZero,
      cmd |-> <<"M", "1", "0", "4", " ", "S", "-", "0", ".", "0", "0", "0">>],
     [temp |-> NaN,
      cmd |-> <<"M", "1", "0", "4", " ", "S", "n", "a", "n">>],
     [temp |-> Inf(0 - 1),
      cmd |-> <<"M", "1", "0", "4", " ", "S", "-", "i", "n", "f">>]}

\* t is a number in fixed notation with exactly d decimal places: an optional
\* minus sign, at least one digit, a point and d digits, each an ASCII digit.
FixedDecimals(t, d) ==
    LET u == IF t # <<>> /\ t[1] = "-" THEN Tail(t) ELSE t
    IN  /\ Len(u) >= d + 2
        /\ u[Len(u) - d] = "."
        /\ AllDigits(SubSeq(u, 1, Len(u) - d - 1))
        /\ AllDigits(SubSeq(u, Len(u) - d + 1, Len(u)))
        /\ \A i \in 1..Len(u) : u[i] = "." \/ \E j \in 1..10 : Digits[j] = u[i]

\* The float is a number: neither nan nor an infinity.
Finite(x) == x.text \notin {NaN.text, Inf(1).text}

\* The text set_target_temp wrote after "M104 S" and before the line end.
WrittenTemp ==
    SubSeq(Written[1], Len(M104Prefix) + 1, Len(Written[1]) - Len(CRLF))

\* C10 as stated: set_target_temp(temp) writes M104 S<temp> with temp
\* rendered with 3 fixed decimal places for every input value.
C10_Fixed3ForEveryValue ==
    last.op = "set_target_temp" =>
        /\ Len(Written) = 1
        /\ FixedDecimals(WrittenTemp, FmtDecimals)

\* C10: set_target_temp(temp) writes exactly the command text M104 S<temp>
\* with temp rendered as the format .3f renders it: with 3 fixed decimal
\* places (35.0 gives M104 S35.000) for every number, the decimal nearest to
\* the double that temp is, and as nan, inf or -inf for the floats that are
\* no number; there is no bounds rejection; it then consumes exactly two
\* acknowledgment lines and no data line, and returns no value.
C10_SetTargetWritesFixed3 ==
    last.op = "set_target_temp" =>
        /\ \E c \in FmtCases : c.temp = last.arg /\ Written = <<c.cmd \o CRLF>>
        /\ Finite(last.arg) <=> FixedDecimals(WrittenTemp, FmtDecimals)
        /\ last.log[1].ev = "write"
        /\ last.exc = ExpectedAck(last.input, 1)
        /\ Reads <= AckLines
        /\ last.ret = <<>>
        /\ last.exc = "none" =>
              /\ Reads = AckLines
              /\ rx = SubSeq(last.input, AckLines + 1, Len(last.input))

\* set_target_temp(nan) wrote "M104 Snan" and returned on two ok lines.
C10_NotANumber ==
    /\ last.op = "set_target_temp"
    /\ last.arg = NaN
    /\ Written = <<M104Prefix \o <<"n", "a", "n">> \o CRLF>>
    /\ last.exc = "none"

\* set_target_temp(0.0005) wrote 0.001: the double lies above the decimal.
C10_TieAbove ==
    /\ last.op = "set_target_temp"
    /\ last.arg = Float(5, 4)
    /\ WrittenTemp = <<"0", ".", "0", "0", "1">>

\* set_target_temp(35.0) wrote its command, consumed two ok lines and left
\* the line after them unread.
C10_Witness ==
    /\ last.op = "set_target_temp"
    /\ last.arg = Float(35, 0)
    /\ last.input = <<OkLine, OkLine, TempsLine>>
    /\ last.exc = "none"
    /\ rx = <<TempsLine>>

\* The command an operation sends.
CommandOf(op, arg) ==
    CASE op = "open" -> M115
      [] op = "set_target_temp" -> CmdSetTarget(arg)
      [] op = "deactivate" -> M18
      [] OTHER -> M105

\* The chunks the last call read, in order.
ReadData == EventsOf(last.log, "read")

\* C11: the engine performs no retries: every call of open,
\* set_target_temp, get_temps, get_target_temp, get_current_temp or
\* deactivate writes exactly one command line, writes it before any read, reads
\* every line at most once, and a timeout or a protocol violation ends the call
\* at the offending read, with no further write and no further read.
C11_NoRetries ==
    last.op # "none" =>
        /\ Written = <<CommandOf(last.op, last.arg) \o CRLF>>
        /\ last.log[1].ev = "write"
        /\ Reads <= DataLines(last.op) + AckLines
        /\ \A i \in 1..Reads : ReadData[i] = At(last.input, i)
        /\ \A i \in 1..(Reads - 1) :
              /\ Complete(ReadData[i])
              /\ i > DataLines(last.op) => AckOk(ReadData[i])
        /\ (Reads > 0 /\ ~Complete(ReadData[Reads])) => last.exc = "ResponseTimeout"
        /\ (last.exc = "ResponseTimeout") => Reads > 0 /\ ~Complete(ReadData[Reads])
        /\ (Reads > DataLines(last.op) /\ Complete(ReadData[Reads])
               /\ ~AckOk(ReadData[Reads]))
           => last.exc = "InvalidResponse"

\* get_temps timed out on its first acknowledgment line, a partial line: it
\* wrote M105 once, read the data line and the partial line once each and
\* left the line after them unread.
C11_Witness ==
    /\ last.op = "get_temps"
    /\ last.input = <<TempsLine, PartialLine, OkLine>>
    /\ last.exc = "ResponseTimeout"
    /\ last.log = <<[ev |-> "write", data |-> M105 \o CRLF],
                    [ev |-> "read", data |-> TempsLine],
                    [ev |-> "read", data |-> PartialLine]>>
    /\ rx = <<OkLine>>

\* C12 as stated: every public operation performs exactly one or two line
\* reads per call.
C12_OneOrTwoReads ==
    last.op # "none" => Reads \in {1, 2}

\* C12: every public operation performs at most three line reads per call:
\* open, get_temps, get_target_temp and get_current_temp read one data line and
\* then up to two acknowledgment lines (three reads when they return),
\* set_target_temp reads up to two acknowledgment lines (two when it returns),
\* and each read takes one chunk, whatever the read timeout delivered.
C12_AtMostThreeReads ==
    last.op # "none" =>
        /\ Reads <= 3
        /\ Reads = Consumed + (IF \E i \in 1..Reads : ReadData[i] = <<>> THEN 1 ELSE 0)
        /\ last.op \in {"open", "get_temps", "get_target_temp", "get_current_temp"} =>
              /\ Reads \in 1..3
              /\ last.exc = "none" => Reads = 3
        /\ last.op = "set_target_temp" =>
              /\ Reads \in 1..2
              /\ last.exc = "none" => Reads = 2

\* get_temps returned after three reads: the data line and two ok lines.
C12_Witness ==
    /\ last.op = "get_temps"
    /\ last.input = <<TempsLine, OkLine, OkLine>>
    /\ last.exc = "none"
    /\ Reads = 3

\* The command lines a finished call c wrote.
WrittenBy(c) == EventsOf(c.log, "write")

Identity == <<model_name, serial_no, fw_version>>

\* C13: the device identity is populated once, at open, and is immutable
\* afterwards: the step that constructs the object is an open that wrote M115
\* exactly once and assigned the three attributes, and every step taken on
\* the Ready object (set_target_temp, get_temps, get_target_temp,
\* get_current_temp, deactivate, succeeding or failing) leaves model_name,
\* serial_no and fw_version unchanged and writes no M115.
C13_IdentityImmutable ==
    [][/\ (state = "Uninitialized" /\ state' = "Ready") =>
             /\ last'.op = "open"
             /\ WrittenBy(last') = <<M115 \o CRLF>>
             /\ IdentityAssigned'
       /\ state = "Ready" =>
             /\ state' = "Ready"
             /\ Identity' = Identity
             /\ last'.op # "open"
             /\ \A i \in 1..Len(WrittenBy(last')) : WrittenBy(last')[i] # M115 \o CRLF
      ]_vars

\* After an open that stored the identity, a get_temps call failed on a
\* non-ok acknowledgment line and the identity is still the stored one.
C13_Witness ==
    /\ state = "Ready"
    /\ last.op = "get_temps"
    /\ last.exc = "InvalidResponse"
    /\ Identity = <<Str(<<"T", "D">>), Str(<<"A", "1">>), Str(<<"v", "2">>)>>

(***************************************************************************)
(* Calls in succession on a Ready object: the lines of RecoverReplies      *)
(* arrive while a call waits, behind whatever the call before left unread. *)
(***************************************************************************)

RecoverReplies ==
    {<<>>, <<OkLine>>, <<OkLine, OkLine>>, <<ErrorLine, OkLine>>, <<PartialLine>>,
     <<TempsLine, OkLine, OkLine>>, <<TempsBoth, OkLine, OkLine>>,
     <<TempsBadC, OkLine, OkLine>>}

RecSetTargetTemp ==
    /\ Len(rx) < MaxRx
    /\ \E temp \in {Float(35, 0)}, a \in RecoverReplies :
          DoCall("set_target_temp", temp, set_target_temp(Port(rx \o a), temp), rx \o a)
    /\ UNCHANGED dev_target

RecGetTemps ==
    /\ Len(rx) < MaxRx
    /\ \E a \in RecoverReplies : DoCall("get_temps", None, get_temps(Port(rx \o a)), rx \o a)
    /\ UNCHANGED dev_target

RecGetTargetTemp ==
    /\ Len(rx) < MaxRx
    /\ \E a \in RecoverReplies :
          DoCall("get_target_temp", None, get_target_temp(Port(rx \o a)), rx \o a)
    /\ UNCHANGED dev_target

RecGetCurrentTemp ==
    /\ Len(rx) < MaxRx
    /\ \E a \in RecoverReplies :
          DoCall("get_current_temp", None, get_current_temp(Port(rx \o a)), rx \o a)
    /\ UNCHANGED dev_target

RecDeactivate ==
    /\ Len(rx) < MaxRx
    /\ \E a \in RecoverReplies : DoCall("deactivate", None, deactivate(Port(rx \o a)), rx \o a)
    /\ UNCHANGED dev_target

NextRecover ==
    \/ RecSetTargetTemp
    \/ RecGetTemps
    \/ RecGetTargetTemp
    \/ RecGetCurrentTemp
    \/ RecDeactivate

SpecRecover == InitReady /\ [][NextRecover]_vars

\* The well-formed M105 data lines of RecoverReplies with the values they
\* carry.
RecoverCases ==
    {[line |-> TempsLine, target |-> None, current |-> Float(255, 1)],
     [line |-> TempsBoth, target |-> Float(20, 0), current |-> Float(255, 1)]}

\* The lines at the head of q form a well-formed response to op.
WellFormed(op, q) ==
    /\ op = "open" \/ DataLines(op) = 0 \/ \E c \in RecoverCases : At(q, 1) = c.line
    /\ op = "open" => At(q, 1) = IdentLine
    /\ AckOk(At(q, DataLines(op) + 1))
    /\ AckOk(At(q, DataLines(op) + 2))

\* The value op returns on the well-formed response at the head of q.
NormalResult(op, q) ==
    IF DataLines(op) = 0 \/ op = "open" THEN <<>>
    ELSE LET c == CHOOSE c \in RecoverCases : At(q, 1) = c.line
         IN  CASE op = "get_temps" -> <<c.target, c.current>>
               [] op = "get_target_temp" -> <<c.target>>
               [] OTHER -> <<c.current>>

\* C14: after a call on the Ready object failed with ResponseTimeout or
\* InvalidResponse, the next call still writes its command, and when the
\* lines it then reads form a well-formed response to that command it returns
\* its normal result: no failure is latched.
C14_UsableAfterFailure ==
    (/\ last.op \notin {"none", "open"}
     /\ last.after \in {"ResponseTimeout", "InvalidResponse"})
    => /\ state = "Ready"
       /\ Written = <<CommandOf(last.op, last.arg) \o CRLF>>
       /\ WellFormed(last.op, last.input) =>
             /\ last.exc = "none"
             /\ last.ret = NormalResult(last.op, last.input)

\* Right after a call that failed with InvalidResponse, get_temps read
\* C:25.5 T:20.0, ok, ok and returned (20.0, 25.5).
C14_Witness ==
    /\ last.op = "get_temps"
    /\ last.after = "InvalidResponse"
    /\ last.input = <<TempsBoth, OkLine, OkLine>>
    /\ last.exc = "none"
    /\ last.ret = <<Float(20, 0), Float(255, 1)>>

\* Operations that exchange through _ask.
AskOps == {"open", "get_temps", "get_target_temp", "get_current_temp"}

\* Complete data lines of Catalog that op rejects once acknowledged: error
\* has no colon, C:abc does not convert, and a line of the other command
\* lacks the required keys.
Rejected(op) ==
    IF op = "open" THEN {ErrorLine, TempsBadC, TempsLine}
    ELSE {ErrorLine, TempsBadC, IdentLine}

\* C18: in an exchange through _ask (open, get_temps, get_target_temp,
\* get_current_temp) the two acknowledgment lines are consumed after the data
\* line is read and before it is parsed: when the data line has a malformed
\* token, a value that does not convert or a required key missing, a fault in
\* the acknowledgment is what the call reports, and otherwise the call fails
\* with InvalidResponse having consumed exactly three lines, the lines after
\* them left unread.
C18_AckBeforeParse ==
    (last.op \in AskOps /\ At(last.input, 1) \in Rejected(last.op)) =>
        /\ ExpectedAck(last.input, 2) # "none" => last.exc = ExpectedAck(last.input, 2)
        /\ ExpectedAck(last.input, 2) = "none" =>
              /\ last.exc = "InvalidResponse"
              /\ Reads = 3
              /\ Consumed = 3
              /\ rx = SubSeq(last.input, 4, Len(last.input))
              /\ last.msg[Len(last.msg)] = strip(At(last.input, 1))

\* get_temps read C:abc T:none and both ok lines before it raised
\* InvalidResponse for the value abc.
C18_Witness ==
    /\ last.op = "get_temps"
    /\ last.input = <<TempsBadC, OkLine, OkLine>>
    /\ last.exc = "InvalidResponse"
    /\ Reads = 3
    /\ rx = <<>>

\* The M105 responses of TempsCatalog that repeat a key, with the values of
\* the last occurrence of each key: C:1.0 C:2.0 T:none and T:20 C:5 T:none.
DupCases ==
    {[line |-> TempsDupC, target |-> None, current |-> Float(2, 0)],
     [line |-> TempsDupT, target |-> None, current |-> Float(5, 0)]}

\* C19: when an acknowledged M105 response carries the same key more than
\* once, no error is raised for the duplication and the last occurrence in the
\* line determines the value: for C:1.0 C:2.0 T:none the current temperature
\* returned is 2.0.
C19_LastDuplicateWins ==
    \A c \in DupCases :
        (last.op \in {"get_temps", "get_target_temp", "get_current_temp"}
         /\ At(last.input, 1) = c.line /\ Acknowledged)
        => /\ last.exc = "none"
           /\ last.op = "get_temps" => last.ret = <<c.target, c.current>>
           /\ last.op = "get_target_temp" => last.ret = <<c.target>>
           /\ last.op = "get_current_temp" => last.ret = <<c.current>>

\* get_current_temp returned 2.0 for the line C:1.0 C:2.0 T:none.
C19_Witness ==
    /\ last.op = "get_current_temp"
    /\ last.input = <<TempsDupC, OkLine, OkLine>>
    /\ last.exc = "none"
    /\ last.ret = <<Float(2, 0)>>

\* The message of the last call embeds text t.
Names(t) == \E j \in 1..Len(last.msg) : last.msg[j] = t

\* The message of an InvalidResponse embeds the stripped text of a line the
\* call read.
CarriesRawText ==
    last.exc = "InvalidResponse" =>
        \E i \in 1..Reads : Names(rstrip(ReadData[i])) \/ Names(strip(ReadData[i]))

\* C20: every InvalidResponse carries the offending raw text, and the
\* InvalidResponse raised by _wait_for_ack for a non-ok acknowledgment line
\* names the unexpected line and which of the two acknowledgment lines it was
\* (its number, counted from 1 or from 0).
C20_ErrorNamesLineAndNumber ==
    /\ CarriesRawText
    /\ last.op \in AskOps \cup {"set_target_temp"} =>
          \A k \in 1..AckLines :
              LET n == DataLines(last.op) + k
              IN  (/\ \A j \in 1..n : Complete(At(last.input, j))
                   /\ \A j \in (DataLines(last.op) + 1)..(n - 1) : AckOk(At(last.input, j))
                   /\ ~AckOk(At(last.input, n)))
                  => /\ last.exc = "InvalidResponse"
                     /\ Names(rstrip(At(last.input, n)))
                     /\ Names(NatText(k)) \/ Names(NatText(k - 1))

(***************************************************************************)
(* Device discovery: the classmethods of TempdeckControl over the ports    *)
(* that comports() enumerates.  A port is a record of the attributes the   *)
(* driver reads (device, location, vid, pid) and of whether serial.Serial  *)
(* can open it (busy: it cannot).                                          *)
(***************************************************************************)

\* Most ports enumerated at once.
MaxPorts == 3

\* ListPortInfo.vid and .pid are None for a port that is not a USB device.
NoId == [some |-> FALSE, val |-> 0]

\* ListPortInfo.location is None where the platform reports no location.
NoLocation == [some |-> FALSE, val |-> ""]

\* TempdeckControl.USB_HW_IDS: [(0x04d8, 0xee93)]
USB_HW_IDS == <<<<1240, 61075>>>>

\* (vid, pid) in l, for a list l of pairs of integers: None equals no integer.
InList(vid, pid, l) ==
    \E i \in 1..Len(l) : vid = Some(l[i][1]) /\ pid = Some(l[i][2])

\* The list of (vid, pid) pairs list_connected_devices looks for.
usb_vidpids_also(usb_vidpid) ==
    IF usb_vidpid.some THEN <<usb_vidpid.val>> \o USB_HW_IDS ELSE USB_HW_IDS

usb_vidpids(usb_vidpid) ==
    IF usb_vidpid.some THEN <<usb_vidpid.val>> ELSE USB_HW_IDS

\* TempdeckControl.list_connected_devices, over the enumeration comports
RECURSIVE list_connected_devices(_, _)
list_connected_devices(comports, usb_vidpid) ==
    IF comports = <<>> THEN <<>>
    ELSE (IF InList(Head(comports).vid, Head(comports).pid, usb_vidpids(usb_vidpid))
          THEN <<<<Head(comports).device, Head(comports).location>>>>
          ELSE <<>>)
         \o list_connected_devices(Tail(comports), usb_vidpid)

\* A classmethod that raised before any port was opened.
NotOpened(exc, q) ==
    [exc |-> exc, msg |-> <<>>, port |-> Port(q), ret |-> <<>>, attrs |-> NoAttrs,
     opened |-> <<>>]

\* serial.Serial(portname, timeout=0.5, xonxoff=True) succeeds: the port
\* exists and is free.
CanOpen(comports, portname) ==
    \E i \in 1..Len(comports) : comports[i].device = portname /\ ~comports[i].busy

\* TempdeckControl.from_serial_portname once the constructor ended as res
from_serial_of(portname, canopen, res, q) ==
    IF ~canopen
    THEN [NotOpened("SerialException", q) EXCEPT !.opened = <<portname>>]
    ELSE [exc |-> res.exc, msg |-> res.msg, port |-> res.port, ret |-> res.ret,
          attrs |-> res.attrs, opened |-> <<portname>>]

\* TempdeckControl.from_serial_portname; q is the unread input of the port
from_serial_portname(comports, portname, q) ==
    from_serial_of(portname, CanOpen(comports, portname),
                   _populate_device_info(Port(q)), q)

\* open_first_device that opens the last entry of the list.
open_first_of_last(dev_list, comports, q) ==
    IF dev_list = <<>> THEN NotOpened("DeviceNotFound", q)
    ELSE from_serial_portname(comports, dev_list[Len(dev_list)][1], q)

\* TempdeckControl.open_first_device once the list dev_list was obtained
open_first_of(dev_list, comports, q) ==
    IF dev_list = <<>> THEN NotOpened("DeviceNotFound", q)
    ELSE from_serial_portname(comports, dev_list[1][1], q)

\* TempdeckControl.open_first_device
open_first_device(comports, usb_vidpid, q) ==
    open_first_of(list_connected_devices(comports, usb_vidpid), comports, q)

\* The loop of TempdeckControl.from_usb_location over the list dev_list
RECURSIVE from_usb_scan(_, _, _, _)
from_usb_scan(dev_list, location, comports, q) ==
    IF dev_list = <<>> THEN NotOpened("DeviceNotFound", q)
    ELSE IF Head(dev_list)[2] = Some(location)
    THEN from_serial_portname(comports, Head(dev_list)[1], q)
    ELSE from_usb_scan(Tail(dev_list), location, comports, q)

\* TempdeckControl.from_usb_location
from_usb_location(comports, location, usb_vidpid, q) ==
    from_usb_scan(list_connected_devices(comports, usb_vidpid), location, comports, q)

\* The record of a classmethod call that ended as res.
DiscRecord(op, usb_vidpid, location, portname, res) ==
    [op |-> op, usb_vidpid |-> usb_vidpid, location |-> location,
     portname |-> portname, exc |-> res.exc, ret |-> res.ret,
     opened |-> res.opened, log |-> res.port.log]

\* The constructor ran in a classmethod call that ended as res: a port was
\* opened.
Constructed(res) == res.opened # <<>> /\ res.exc # "SerialException"

\* A classmethod that constructs an object ended as res, on a port whose
\* unread input was q.
DoConstruct(op, usb_vidpid, location, portname, res, q) ==
    /\ state = "Uninitialized"
    /\ disc' = DiscRecord(op, usb_vidpid, location, portname, res)
    /\ IF Constructed(res) THEN DoOpen(res, q)
       ELSE UNCHANGED <<rx, state, _model_name, _serial_no, _fw_version, last>>
    /\ UNCHANGED <<dev_target, ports, cli>>

\* ------------------------------------------------------- discovery inputs

PortA ==
    [device |-> "ttyACM0", location |-> Some("1-1"), vid |-> Some(1240),
     pid |-> Some(61075), busy |-> FALSE]

PortB ==
    [device |-> "ttyACM1", location |-> Some("1-2"), vid |-> Some(1240),
     pid |-> Some(61075), busy |-> FALSE]

\* A second interface at the location of PortB, held open by another program.
PortC ==
    [device |-> "ttyACM2", location |-> Some("1-2"), vid |-> Some(1240),
     pid |-> Some(61075), busy |-> TRUE]

\* Another vendor's adapter.
PortD ==
    [device |-> "ttyUSB0", location |-> Some("1-3"), vid |-> Some(1027),
     pid |-> Some(24577), busy |-> FALSE]

\* The vendor of the Tempdeck, another product, with no location reported.
PortE ==
    [device |-> "ttyUSB1", location |-> NoLocation, vid |-> Some(1240),
     pid |-> Some(10), busy |-> FALSE]

\* A port that is not a USB device.
PortF ==
    [device |-> "ttyS0", location |-> NoLocation, vid |-> NoId, pid |-> NoId,
     busy |-> FALSE]

PortCatalog == {PortA, PortB, PortC, PortD, PortE, PortF}

\* The enumerations: up to MaxPorts different ports in any order.
Enumerations ==
    {e \in UNION {[1..n -> PortCatalog] : n \in 0..MaxPorts} :
        \A i, j \in 1..Len(e) : i # j => e[i] # e[j]}

VidPids == {NoVidPid, Some(<<1027, 24577>>), Some(<<1240, 10>>)}

\* "None" is the text of a location, as in "-u None" on the command line.
Locations == {"1-2", "1-3", "None"}

PortNames == {"ttyACM0", "ttyACM2", "ttyS0", "COM9"}

\* What the opened port delivers while the constructor waits.
IdentReplies == {<<>>, <<IdentLine, OkLine, OkLine>>, <<ErrorLine, OkLine>>}

InitDiscover ==
    /\ rx = <<>>
    /\ state = "Uninitialized"
    /\ _model_name = Unset
    /\ _serial_no = Unset
    /\ _fw_version = Unset
    /\ dev_target = NoneText
    /\ last = NoCall
    /\ ports \in Enumerations
    /\ disc = NoDisc
    /\ cli = NoCli

ListConnectedDevices ==
    /\ \E vp \in VidPids :
          disc' = [NoDisc EXCEPT !.op = "list_connected_devices",
                                 !.usb_vidpid = vp,
                                 !.ret = list_connected_devices(ports, vp)]
    /\ UNCHANGED <<rx, state, _model_name, _serial_no, _fw_version, dev_target, last,
                   ports, cli>>

OpenFirstDevice ==
    \E vp \in VidPids, a \in IdentReplies :
        DoConstruct("open_first_device", vp, "", "",
                    open_first_device(ports, vp, rx \o a), rx \o a)

FromUsbLocation ==
    \E loc \in Locations, vp \in VidPids, a \in IdentReplies :
        DoConstruct("from_usb_location", vp, loc, "",
                    from_usb_location(ports, loc, vp, rx \o a), rx \o a)

FromSerialPortname ==
    \E name \in PortNames, a \in IdentReplies :
        DoConstruct("from_serial_portname", NoVidPid, "", name,
                    from_serial_portname(ports, name, rx \o a), rx \o a)

NextDiscover ==
    \/ ListConnectedDevices
    \/ OpenFirstDevice
    \/ FromUsbLocation
    \/ FromSerialPortname

SpecDiscover == InitDiscover /\ [][NextDiscover]_vars

\* The (vendor ID, product ID) pairs configured by the argument usb_vidpid:
\* the supplied pair, or the default set.
Configured(usb_vidpid) ==
    IF usb_vidpid.some THEN {usb_vidpid.val} ELSE {<<1240, 61075>>}

\* Positions in the enumeration of the ports with configured IDs.
Matching(usb_vidpid) ==
    {i \in 1..Len(ports) :
        /\ ports[i].vid.some
        /\ ports[i].pid.some
        /\ <<ports[i].vid.val, ports[i].pid.val>> \in Configured(usb_vidpid)}

\* l lists, in enumeration order, exactly the (port name, USB location)
\* pairs of the ports at the positions of set m.
ListsExactly(l, m) ==
    /\ Len(l) = Cardinality(m)
    /\ \A i \in m :
          l[Cardinality({j \in m : j <= i})] = <<ports[i].device, ports[i].location>>

\* C15: list_connected_devices() returns, in enumeration order, exactly the
\* (port name, USB location) pairs of the enumerated ports whose (vendor ID,
\* product ID) is in the configured set, the supplied pair if one is given
\* and the default set otherwise; it opens no port, writes nothing and
\* constructs no object.
C15_ListFiltersByIds ==
    [][disc'.op = "list_connected_devices" =>
          /\ ListsExactly(disc'.ret, Matching(disc'.usb_vidpid))
          /\ disc'.exc = "none"
          /\ disc'.opened = <<>>
          /\ disc'.log = <<>>
          /\ UNCHANGED <<rx, state, last, ports>>
      ]_vars

\* With a Tempdeck, another vendor's adapter and a second Tempdeck
\* enumerated, the default call listed the two Tempdecks in order.
C15_Witness ==
    /\ ports = <<PortB, PortD, PortA>>
    /\ disc.op = "list_connected_devices"
    /\ disc.usb_vidpid = NoVidPid
    /\ disc.ret = <<<<"ttyACM1", Some("1-2")>>, <<"ttyACM0", Some("1-1")>>>>

\* The least element of a non-empty set of naturals.
Least(s) == CHOOSE i \in s : \A j \in s : i <= j

\* The positions a call of open_first_device or from_usb_location may open:
\* those of the discovery result, with the location asked for if any.
Candidates ==
    {i \in Matching(disc.usb_vidpid) :
        disc.op = "from_usb_location" =>
            (ports[i].location.some /\ ports[i].location.val = disc.location)}

\* C16: open_first_device() opens the first entry of the discovery result
\* and from_usb_location(location) the first discovered entry at that
\* location; when there is no such entry they fail with DeviceNotFound,
\* having opened no port and written no command.  Only the port opened is
\* written to, and the object exists when identification succeeded on it.
C16_OpensFirstOrNotFound ==
    disc.op \in {"open_first_device", "from_usb_location"} =>
        /\ Candidates = {} =>
              /\ disc.exc = "DeviceNotFound"
              /\ disc.opened = <<>>
              /\ disc.log = <<>>
              /\ state = "Uninitialized"
        /\ Candidates # {} =>
              /\ disc.exc # "DeviceNotFound"
              /\ disc.opened = <<ports[Least(Candidates)].device>>
              /\ ports[Least(Candidates)].busy =>
                    disc.exc = "SerialException" /\ disc.log = <<>>
              /\ ~ports[Least(Candidates)].busy =>
                    /\ disc.log[1] = [ev |-> "write", data |-> M115 \o CRLF]
                    /\ disc.exc = last.exc
                    /\ disc.exc = "none" <=> state = "Ready"

\* With two Tempdecks at location 1-2, the first of them busy, and one at
\* 1-1 enumerated first, from_usb_location("1-2") tried the busy one and
\* nothing else.
C16_FirstAtLocation ==
    /\ ports = <<PortA, PortC, PortB>>
    /\ disc.op = "from_usb_location"
    /\ disc.location = "1-2"
    /\ disc.opened = <<"ttyACM2">>
    /\ disc.exc = "SerialException"

\* open_first_device found no Tempdeck among the enumerated ports.
C16_Witness ==
    /\ ports = <<PortD, PortF>>
    /\ disc.op = "open_first_device"
    /\ disc.usb_vidpid = NoVidPid
    /\ disc.exc = "DeviceNotFound"

\* open_first_device opened the first of two Tempdecks and identified it.
C16_Opened ==
    /\ ports = <<PortD, PortB, PortA>>
    /\ disc.op = "open_first_device"
    /\ disc.opened = <<"ttyACM1">>
    /\ state = "Ready"

(***************************************************************************)
(* The command line, ot_tempdeck/cli.py: cli_main on parsed arguments.     *)
(* The TempdeckControl object it constructs is local to the run, so a run  *)
(* is recorded in cli and leaves the other variables alone.                *)
(***************************************************************************)

OffText == <<"o", "f", "f">>

\* user_input.strip().lower() == "off".  str.lower() maps no character but
\* "O" to "o" and none but "F" to "f", and maps every character to at least
\* one, so the comparison holds exactly when the stripped text is "off" in
\* ASCII capital or small letters.
is_off(user_input) == ascii_lower(strip(user_input)) = OffText

\* cli_main raised instead of returning an exit code.
NoCode == 0 - 1

\* cli_main returned code after the calls listed.
Exit(code, calls, p) ==
    [code |-> code, exc |-> "none", calls |-> calls, log |-> p.log]

\* An exception left cli_main uncaught.
Propagate(exc, calls, p) ==
    [code |-> NoCode, exc |-> exc, calls |-> calls, log |-> p.log]

\* calls with the call of op that ended as res added.
Called(calls, op, res) == Append(calls, [op |-> op, exc |-> res.exc])

\* The classmethod cli_main opens the device with.
OpenMethod(args) ==
    IF args.port # "" THEN "from_serial_portname"
    ELSE IF args.usb # "" THEN "from_usb_location"
    ELSE "open_first_device"

\* cli_main: the device selection inside the try block
cli_open(args, comports, q) ==
    IF args.port # "" THEN from_serial_portname(comports, args.port, q)
    ELSE IF args.usb # "" THEN from_usb_location(comports, args.usb, NoVidPid, q)
    ELSE open_first_device(comports, NoVidPid, q)

\* cli_main after a call that ended as r, when nothing but printing follows
cli_done(r, calls) ==
    IF r.exc # "none" THEN Propagate(r.exc, calls, r.port)
    ELSE Exit(0, calls, r.port)

\* cli_main after td.get_target_temp() ended as g: the value is formatted
\* with .2f, which raises TypeError for None.
cli_readback(g, calls) ==
    IF g.exc # "none" THEN Propagate(g.exc, calls, g.port)
    ELSE IF g.ret[1] = None THEN Propagate("TypeError", calls, g.port)
    ELSE Exit(0, calls, g.port)

cli_readback_of(g, calls) == cli_readback(g, Called(calls, "get_target_temp", g))

\* cli_set that does not read the target back.
cli_set_only(s, calls) ==
    IF s.exc # "none" THEN Propagate(s.exc, calls, s.port)
    ELSE Exit(0, calls, s.port)

\* cli_main after td.set_target_temp(target_temp) ended as s
cli_set(s, calls) ==
    IF s.exc # "none" THEN Propagate(s.exc, calls, s.port)
    ELSE cli_readback_of(get_target_temp(s.port), calls)

cli_set_of(s, calls) == cli_set(s, Called(calls, "set_target_temp", s))

cli_deactivate_of(d, calls) == cli_done(d, Called(calls, "deactivate", d))

cli_get_temps_of(g, calls) == cli_done(g, Called(calls, "get_temps", g))

\* cli_main from 'if target_temp is not None' on, on the open port p
cli_act(target_temp, deact, p, calls) ==
    IF target_temp # None THEN cli_set_of(set_target_temp(p, target_temp), calls)
    ELSE IF deact THEN cli_deactivate_of(deactivate(p), calls)
    ELSE cli_get_temps_of(get_temps(p), calls)

\* cli_main from the prompt on, once the device is open
cli_prompt(args, user_input, p, calls) ==
    IF ~args.prompt_target THEN cli_act(args.set_target, args.deactivate, p, calls)
    ELSE IF is_off(user_input)
    THEN cli_act(args.set_target, TRUE, p, calls)
    ELSE IF ~float(user_input).ok THEN Propagate("ValueError", calls, p)
    ELSE cli_act(float(user_input).val, args.deactivate, p, calls)

\* cli_main after the device selection ended as o
cli_opened(args, user_input, o, calls) ==
    IF o.exc \in {"DeviceNotFound", "SerialException"} THEN Exit(1, calls, o.port)
    ELSE IF o.exc # "none" THEN Propagate(o.exc, calls, o.port)
    ELSE cli_prompt(args, user_input, o.port, calls)

cli_opened_of(args, user_input, o) ==
    cli_opened(args, user_input, o, Called(<<>>, OpenMethod(args), o))

\* cli_main on the parsed arguments args; user_input is what input() returns
\* and q what the opened port delivers
cli_main(args, user_input, comports, q) ==
    IF args.list_devices
    THEN Exit(0, <<[op |-> "list_connected_devices", exc |-> "none"]>>, Port(q))
    ELSE cli_opened_of(args, user_input, cli_open(args, comports, q))

\* ------------------------------------------------------- command-line inputs

\* Device selections: none, -p, -u (mutually exclusive).
CliDevices ==
    {[port |-> "", usb |-> ""], [port |-> "ttyACM0", usb |-> ""],
     [port |-> "COM9", usb |-> ""], [port |-> "", usb |-> "1-2"],
     [port |-> "", usb |-> "1-4"]}

\* Actions: none, -l, -t 35, -t 0, -i, -d (mutually exclusive).
CliActions ==
    {[list_devices |-> FALSE, set_target |-> None, prompt_target |-> FALSE,
      deactivate |-> FALSE],
     [list_devices |-> TRUE, set_target |-> None, prompt_target |-> FALSE,
      deactivate |-> FALSE],
     [list_devices |-> FALSE, set_target |-> Float(35, 0), prompt_target |-> FALSE,
      deactivate |-> FALSE],
     [list_devices |-> FALSE, set_target |-> Float(0, 0), prompt_target |-> FALSE,
      deactivate |-> FALSE],
     [list_devices |-> FALSE, set_target |-> None, prompt_target |-> TRUE,
      deactivate |-> FALSE],
     [list_devices |-> FALSE, set_target |-> None, prompt_target |-> FALSE,
      deactivate |-> TRUE]}

\* The namespaces parse_cli_args can return for these options.
CliArgs ==
    {[port |-> d.port, usb |-> d.usb, list_devices |-> a.list_devices,
      set_target |-> a.set_target, prompt_target |-> a.prompt_target,
      deactivate |-> a.deactivate] : d \in CliDevices, a \in CliActions}

\* What the user types at the prompt: off, " OFF ", 35.5, -0 between a
\* no-break space and a space, 35.5 with a fullwidth five (U+FF15), 4e-324
\* (which is the smallest double, 2^-1074), abc.
UserInputs ==
    {OffText, <<" ", "O", "F", "F", " ">>, <<"3", "5", ".", "5">>,
     <<"<a0>", "-", "0", " ">>, <<"3", "<ff15>", ".", "5">>,
     <<"4", "e", "-", "3", "2", "4">>, <<"a", "b", "c">>}

\* What the opened port delivers during the run: nothing; the identity and
\* its acknowledgment, followed by nothing, by the acknowledgment of a
\* command, by a temperature report, or by both with the target set or none.
CliStreams ==
    {<<>>,
     <<IdentLine, OkLine, OkLine>>,
     <<IdentLine, OkLine, OkLine, OkLine, OkLine>>,
     <<IdentLine, OkLine, OkLine, TempsLine, OkLine, OkLine>>,
     <<IdentLine, OkLine, OkLine, OkLine, OkLine, TempsBoth, OkLine, OkLine>>,
     <<IdentLine, OkLine, OkLine, OkLine, OkLine, TempsLine, OkLine, OkLine>>}

CliEnumerations ==
    {<<>>, <<PortA>>, <<PortC>>, <<PortD, PortB, PortA>>, <<PortF, PortC, PortB>>}

InitCli ==
    /\ rx = <<>>
    /\ state = "Uninitialized"
    /\ _model_name = Unset
    /\ _serial_no = Unset
    /\ _fw_version = Unset
    /\ dev_target = NoneText
    /\ last = NoCall
    /\ ports \in CliEnumerations
    /\ disc = NoDisc
    /\ cli = NoCli

\* The record of a cli_main run that ended as res.
CliRecord(args, user_input, q, res) ==
    [args |-> args, user_input |-> user_input, input |-> q,
     code |-> res.code, exc |-> res.exc, calls |-> res.calls, log |-> res.log]

\* One run of the program: cli_main is called once.
CliMain ==
    /\ cli = NoCli
    /\ \E args \in CliArgs, q \in CliStreams :
          \E user_input \in IF args.prompt_target THEN UserInputs ELSE {<<>>} :
              cli' = CliRecord(args, user_input, q, cli_main(args, user_input, ports, q))
    /\ UNCHANGED <<rx, state, _model_name, _serial_no, _fw_version, dev_target, last,
                   ports, disc>>

NextCli == CliMain

SpecCli == InitCli /\ [][NextCli]_vars

\* The prompt inputs of UserInputs that mean deactivate, and those that are
\* numbers.
OffInputs == {OffText, <<" ", "O", "F", "F", " ">>}

NumberInputs ==
    {<<"3", "5", ".", "5">>, <<"<a0>", "-", "0", " ">>,
     <<"3", "<ff15>", ".", "5">>, <<"4", "e", "-", "3", "2", "4">>}

\* The action the arguments (and the prompt input) of the last run select.
Selected ==
    IF cli.args.list_devices THEN "list"
    ELSE IF cli.args.set_target # None
            \/ (cli.args.prompt_target /\ cli.user_input \notin OffInputs)
    THEN "target"
    ELSE IF cli.args.deactivate \/ cli.args.prompt_target THEN "deactivate"
    ELSE "read"

\* The calls that make up the selected action, the opening first.
SelectedCalls ==
    CASE Selected = "list" -> <<"list_connected_devices">>
      [] Selected = "target" ->
            <<OpenMethod(cli.args), "set_target_temp", "get_target_temp">>
      [] Selected = "deactivate" -> <<OpenMethod(cli.args), "deactivate">>
      [] OTHER -> <<OpenMethod(cli.args), "get_temps">>

\* The methods the last run called, in order.
CliOps == [i \in 1..Len(cli.calls) |-> cli.calls[i].op]

\* Opening the device failed with DeviceNotFound or a transport-open failure.
OpenFailed ==
    /\ ~cli.args.list_devices
    /\ cli.calls[1].exc \in {"DeviceNotFound", "SerialException"}

\* C17 as stated: cli_main returns 1 without issuing any operation when
\* opening fails with DeviceNotFound or a transport-open failure, and
\* otherwise returns 0 after performing exactly the selected action.
C17_ExitCodeAlways ==
    cli.calls # <<>> =>
        IF OpenFailed THEN cli.code = 1 /\ Len(cli.calls) = 1
        ELSE cli.code = 0 /\ CliOps = SelectedCalls

\* C17: cli_main returns 1, having written nothing and called no set,
\* deactivate or read operation, when opening the device fails with
\* DeviceNotFound or a transport-open failure.  Otherwise, when nothing
\* raises, it returns 0 after performing exactly the selected action:
\* list-devices opens no device; a target (flag or prompt) calls
\* set_target_temp then get_target_temp; deactivate (flag, or prompt input
\* off) calls deactivate only; no action flag calls get_temps only.  It
\* returns no exit code when an exception leaves it: the ResponseTimeout or
\* InvalidResponse of the constructor or of an operation, the ValueError of
\* a prompt input that is neither off nor a number, the TypeError of printing
\* a target read back as none; the calls made until then are the first of the
\* selected action.
C17_ExitCodeUnlessRaised ==
    cli.calls # <<>> =>
        /\ OpenFailed => cli.code = 1 /\ cli.exc = "none" /\ Len(cli.calls) = 1 /\ cli.log = <<>>
        /\ Selected = "list" => cli.code = 0 /\ cli.log = <<>>
        /\ (~OpenFailed /\ cli.exc = "none") =>
              /\ cli.code = 0
              /\ CliOps = SelectedCalls
              /\ \A i \in 1..Len(cli.calls) : cli.calls[i].exc = "none"
        /\ cli.exc # "none" =>
              /\ cli.code = NoCode
              /\ Len(cli.calls) <= Len(SelectedCalls)
              /\ CliOps = SubSeq(SelectedCalls, 1, Len(cli.calls))
              /\ \A i \in 1..(Len(cli.calls) - 1) : cli.calls[i].exc = "none"
              /\ \/ /\ cli.exc \in {"ResponseTimeout", "InvalidResponse"}
                    /\ cli.calls[Len(cli.calls)].exc = cli.exc
                 \/ /\ cli.exc = "ValueError"
                    /\ cli.args.prompt_target
                    /\ cli.user_input \notin OffInputs \cup NumberInputs
                    /\ Len(cli.calls) = 1
                 \/ /\ cli.exc = "TypeError"
                    /\ Selected = "target"
                    /\ CliOps = SelectedCalls
                    /\ cli.calls[Len(cli.calls)].exc = "none"

\* With -t 35 on a device that acknowledges and reports the target,
\* cli_main opened the first Tempdeck, called set_target_temp then
\* get_target_temp, and returned 0.
C17_Witness ==
    /\ cli.args.set_target = Float(35, 0)
    /\ cli.args.port = ""
    /\ cli.args.usb = ""
    /\ cli.calls = <<[op |-> "open_first_device", exc |-> "none"],
                     [op |-> "set_target_temp", exc |-> "none"],
                     [op |-> "get_target_temp", exc |-> "none"]>>
    /\ cli.code = 0

\* No Tempdeck is enumerated and cli_main returned 1 with nothing written.
C17_NotFound ==
    /\ ports = <<>>
    /\ cli.calls = <<[op |-> "open_first_device", exc |-> "DeviceNotFound"]>>
    /\ cli.code = 1
    /\ cli.log = <<>>

\* The identification timed out and the exception left cli_main.
C17_Raised ==
    /\ cli.calls = <<[op |-> "open_first_device", exc |-> "ResponseTimeout"]>>
    /\ cli.code = NoCode

(***************************************************************************)
(* Arbitrary bytes: the general operations against lines that are well     *)
(* formed, malformed, empty, partial, or carry a byte outside ASCII.       *)
(***************************************************************************)

\* The acknowledgment with a byte 0x80 before the newline.
NonAsciiLine == <<"o", "k", "<80>", "\n">>

\* A temperature report with a byte 0x80 in a value.
NonAsciiTemps ==
    <<"C", ":", "2", "5", "<80>", " ", "T", ":", "n", "o", "n", "e", "\n">>

\* A lone byte 0x80 followed by silence.
NonAsciiPartial == <<"<80>">>

\* The acknowledgment with a form feed before the newline.
FormFeedOk == <<"o", "k", "\f", "\n">>

\* A temperature report with a form feed between its tokens, an exponent and
\* a target that is no number.
FormFeedTemps ==
    <<"C", ":", "1", "e", "3", "\f", "T", ":", "n", "a", "n", "<1c>", "\n">>

BytesCatalog ==
    {OkLine, EmptyLine, PartialLine, IdentLine, TempsLine, TempsBadC, NonAsciiLine,
     NonAsciiTemps, NonAsciiPartial, FormFeedOk, FormFeedTemps}

BytesSend ==
    /\ Len(rx) < MaxRx
    /\ \E chunk \in BytesCatalog : rx' = Append(rx, chunk)
    /\ last' = NoCall
    /\ UNCHANGED <<state, _model_name, _serial_no, _fw_version, dev_target>>
    /\ UNCHANGED hostvars

\* set_target_temp(35.0)
SetTargetTemp35 ==
    /\ DoCall("set_target_temp", Float(35, 0), set_target_temp(Port(rx), Float(35, 0)), rx)
    /\ UNCHANGED dev_target

NextBytes ==
    \/ BytesSend
    \/ Open
    \/ SetTargetTemp35
    \/ GetTemps
    \/ GetTargetTemp
    \/ GetCurrentTemp
    \/ Deactivate

SpecBytes == Init /\ [][NextBytes]_vars

\* An empty newline-terminated data line followed by two ok lines yields
\* InvalidResponse.
EmptyLineInvalid ==
    (last.op \in AskOps /\ At(last.input, 1) = EmptyLine /\ Acknowledged)
    => last.exc = "InvalidResponse"

\* A form feed is whitespace: it separates the tokens of a data line and is
\* stripped from an acknowledgment, and the values 1e3 and nan convert.
FormFeedIsWhitespace ==
    (/\ last.op = "get_temps"
     /\ Len(last.input) >= 3
     /\ SubSeq(last.input, 1, 3) = <<FormFeedTemps, FormFeedOk, OkLine>>)
    => (last.exc = "none" /\ last.ret = <<NaN, Float(1000, 0)>>)

\* get_temps returned (nan, 1000.0) for the report with a form feed.
FormFeedRead ==
    /\ last.op = "get_temps"
    /\ last.input = <<FormFeedTemps, FormFeedOk, OkLine>>
    /\ last.ret = <<NaN, Float(1000, 0)>>

\* C21: for any bytes the transport delivers (well-formed, malformed, empty
\* and partial lines, lines with non-ASCII bytes) every operation either
\* returns or fails with ResponseTimeout or InvalidResponse, no other error
\* escapes, and an empty newline-terminated data line yields InvalidResponse,
\* not ResponseTimeout.
C21_OnlyTimeoutOrInvalid ==
    /\ last.exc \in {"none", "ResponseTimeout", "InvalidResponse"}
    /\ EmptyLineInvalid

\* Every call that read only ASCII bytes returned or failed with
\* ResponseTimeout or InvalidResponse.
AsciiOnlyTimeoutOrInvalid ==
    (\A i \in 1..Reads : \A k \in 1..Len(ReadData[i]) : ReadData[i][k] \notin NonAscii)
    => last.exc \in {"none", "ResponseTimeout", "InvalidResponse"}

\* The error that escapes is the decoding error, and only for a read that
\* returned a byte outside ASCII.
DecodeErrorOnNonAscii ==
    last.exc = "UnicodeDecodeError" <=>
        (Reads > 0 /\ \E k \in 1..Len(ReadData[Reads]) : ReadData[Reads][k] \in NonAscii)

\* C22: the engine consumes transport lines strictly in arrival order, each
\* at most once, and discards no unread input before writing a command: what
\* a call reads are the first lines of what was unread before it (followed by
\* what arrives meanwhile), what it has not read stays unread, and a line left
\* unread by the call before is the first line the call reads.
C22_ReadsInArrivalOrder ==
    [][last'.op # "none" =>
          /\ Len(rx) <= Len(last'.input)
          /\ SubSeq(last'.input, 1, Len(rx)) = rx
          /\ \A i \in 1..Len(EventsOf(last'.log, "read")) :
                EventsOf(last'.log, "read")[i] = At(last'.input, i)
          /\ Len(rx') <= Len(last'.input)
          /\ rx' = SubSeq(last'.input, Len(last'.input) - Len(rx') + 1, Len(last'.input))
          /\ Len(last'.input) - Len(rx') <= Len(EventsOf(last'.log, "read"))
          /\ (rx # <<>> /\ EventsOf(last'.log, "read") # <<>>) =>
                EventsOf(last'.log, "read")[1] = rx[1]
      ]_vars

\* After a call failed on a non-ok first acknowledgment, get_temps read the
\* ok line left over as its data line and the temperature report as its
\* first acknowledgment.
C22_Witness ==
    /\ last.op = "get_temps"
    /\ last.after = "InvalidResponse"
    /\ last.input = <<OkLine, TempsBoth, OkLine, OkLine>>
    /\ ReadData = <<OkLine, TempsBoth>>
    /\ last.exc = "InvalidResponse"
    /\ rx = <<OkLine, OkLine>>

====
